---- MODULE Spec2Model ----
(***************************************************************************)
(* Session and conversation store (src/session/manager.py,                 *)
(* src/session/models.py), the identifier hashing and field encryption     *)
(* they use                                                                *)
(* (src/privacy/encryption.py) and the topic router                        *)
(* (src/routing/topic_analyzer.py).                                        *)
(*                                                                         *)
(* Spec        : concurrent callers of the session store, one database     *)
(*               statement per step (short-lived sessions, READ COMMITTED).*)
(* SpecRouter  : select_character applied to bounded messages.             *)
(* SpecHistory : concurrent callers of the conversation store              *)
(*               (add_message, get_conversation_history,                   *)
(*               clear_old_history) on a database in use.                  *)
(* SpecStore   : the session store, the conversation store and the erasure *)
(*               of src/privacy/data_manager.py together.                  *)
(* SpecHash    : hash_phone_number applied to spellings of identifiers.    *)
(* SpecCipher  : encrypt, decrypt and is_encrypted applied to texts and    *)
(*               to stored values.                                         *)
(* SpecRecord  : encrypt_record and decrypt_record applied to records.     *)
(* SpecWebhook : the handler of src/whatsapp_webhook/server.py, messages   *)
(*               handled side by side by worker processes on one database. *)
(* SpecSimple  : SimpleSession (src/whatsapp_webhook/server.py) and        *)
(*               SessionManager given the same calls.                      *)
(*                                                                         *)
(* Strings of the program are TLA+ strings; TLC's Len, SubSeq and \o work  *)
(* on them, so hashing, encryption and matching are computed on the        *)
(* characters as the code does.                                            *)
(***************************************************************************)
EXTENDS Integers, Sequences, FiniteSets, TLC

(* ------------------------------ bounds -------------------------------- *)
\* Concurrent callers of the store.
NumProcs == 2
\* Store calls started in one behaviour.
MaxCalls == 2
\* Whitespace-separated words of a routed message.
MaxWords == 3
\* Conversation store and erasure calls started in one behaviour.
MaxTurns == 2
\* The largest limit asked of get_conversation_history.
MaxLimit == 2
\* The largest age, in ticks of the clock, asked of clear_old_history.
MaxDays == 1
\* Messages the webhook receives in one behaviour.
MaxDeliveries == 2
\* Worker processes serving the webhook.
NumWorkers == 2
\* Calls made on the in-memory store and the persistent store.
MaxOps == 4

VARIABLES
    user_sessions,      \* table user_sessions: a set of rows
    next_id,            \* the autoincrement of user_sessions.id
    now,                \* the database clock (func.now / utcnow), logical
    pc,                 \* per caller: the statement it is about to run
    phone_number,       \* per caller: the identifier argument
    character,          \* per caller: the persona argument (update_character)
    session,            \* per caller: id of the row its query returned
    path,               \* per caller: the branch the call took
    result,             \* per caller: id of the row the call returned or wrote
    calls,              \* store calls started so far
    message,            \* router: the message
    current_character,  \* router: the active persona
    threshold,          \* router: the switch threshold, in hundredths
    scores,             \* router: the score map analyze returned
    selected,           \* router: the persona select_character returned
    rpc,                \* router: "call" before, "ret" after select_character
    conversation_history, \* table conversation_history: a set of rows
    next_message_id,    \* the autoincrement of conversation_history.id
    turns,              \* conversation and erasure calls started so far
    role,               \* per caller: the role argument (add_message)
    content,            \* per caller: the content argument (add_message)
    limit,              \* per caller: the limit argument
    days,               \* per caller: the days argument (clear_old_history)
    messages,           \* per caller: the rows its query or DELETE selected
    returned,           \* per caller: the list get_conversation_history returned
    deleted,            \* per caller: the count clear_old_history returned
    spelling,           \* hashing: two spellings of an identifier
    digest,             \* hashing: what hash_phone_number returned for each
    hpc,                \* hashing: "call" before, "ret" after the two calls
    original,           \* cipher: the text given to encrypt
    cipher,             \* cipher: what encrypt returned
    stored_value,       \* cipher: a value found in the store, and its origin
    opened,             \* cipher: what decrypt returned for each of the two
    looks_encrypted,    \* cipher: what is_encrypted returned for each
    served,             \* cipher: the list a read of the two rows returned
    cpc,                \* cipher: the call to come
    rec_table,          \* records: the table argument
    rec_given,          \* records: the record given to encrypt_record
    rec_encrypted,      \* records: what encrypt_record returned
    rec_decrypted,      \* records: what decrypt_record returned for it
    recpc,              \* records: the call to come
    Body,               \* per handler: the text of the message
    session_character,  \* per handler: current_character of its session
    selected_character, \* per handler: the persona the router selected
    twiml_response,     \* per handler: the messages of its reply
    appended,           \* per handler: ids of the turns it has inserted
    disturbed,          \* per handler: another handler of the same
                        \* identifier took a step while it was running
    deliveries,         \* messages received so far
    sessions,           \* SimpleSession.sessions
    simple_returned,    \* what SimpleSession returned to the last call
    manager_returned,   \* what SessionManager returned to the same call
    ops                 \* calls made on the two stores so far

storeVars == <<user_sessions, next_id, now, pc, phone_number, character,
               session, path, result, calls>>
routerVars == <<message, current_character, threshold, scores, selected, rpc>>
historyTableVars == <<conversation_history, next_message_id, turns>>
historyCallVars == <<role, content, limit, days, messages, returned, deleted>>
hashVars == <<spelling, digest, hpc>>
cipherVars == <<original, cipher, stored_value, opened, looks_encrypted,
                served, cpc>>
recordVars == <<rec_table, rec_given, rec_encrypted, rec_decrypted, recpc>>
webhookVars == <<Body, session_character, selected_character, twiml_response,
                 appended, disturbed, deliveries>>
simpleVars == <<sessions, simple_returned, manager_returned, ops>>
\* The state of the specifications further down.
restVars == <<cipherVars, recordVars, webhookVars, simpleVars>>
vars == <<user_sessions, next_id, now, pc, phone_number, character, session,
          path, result, calls, message, current_character, threshold, scores,
          selected, rpc, conversation_history, next_message_id, turns, role,
          content, limit, days, messages, returned, deleted, spelling, digest,
          hpc, original, cipher, stored_value, opened, looks_encrypted,
          served, cpc, rec_table, rec_given, rec_encrypted, rec_decrypted,
          recpc, Body, session_character, selected_character, twiml_response,
          appended, disturbed, deliveries, sessions, simple_returned,
          manager_returned, ops>>

Procs == 1..NumProcs

\* The SQL NULL of a nullable column, and "no row" of a query.
NULL == "NULL"
NoRow == 0

Characters == {"botan", "kasho", "yuri"}

(* ------------------------- strings, characters ------------------------ *)
Char(s, i) == SubSeq(s, i, i)

\* str.startswith
StartsWith(s, prefix) ==
    /\ Len(prefix) <= Len(s)
    /\ SubSeq(s, 1, Len(prefix)) = prefix

\* the `in` operator on strings: sub occurs somewhere in s
Contains(s, sub) ==
    \E i \in 1..(Len(s) - Len(sub) + 1) : SubSeq(s, i, i + Len(sub) - 1) = sub

\* what str.strip() removes at both ends
Whitespace == {" ", "\t", "\n"}

RECURSIVE LStrip(_)
LStrip(s) ==
    IF Len(s) > 0 /\ Char(s, 1) \in Whitespace
    THEN LStrip(SubSeq(s, 2, Len(s)))
    ELSE s

RECURSIVE RStrip(_)
RStrip(s) ==
    IF Len(s) > 0 /\ Char(s, Len(s)) \in Whitespace
    THEN RStrip(SubSeq(s, 1, Len(s) - 1))
    ELSE s

Strip(s) == RStrip(LStrip(s))

\* str.replace(c, "") for a one-character c
RECURSIVE RemoveChar(_, _)
RemoveChar(s, c) ==
    IF Len(s) = 0 THEN s
    ELSE IF Char(s, 1) = c
         THEN RemoveChar(SubSeq(s, 2, Len(s)), c)
         ELSE Char(s, 1) \o RemoveChar(SubSeq(s, 2, Len(s)), c)

(* --------------------- ConversationEncryption ------------------------- *)
\* PHONE_HASH_SALT default
HashSalt == "sisters_phone_salt_v1"

\* hashlib.sha256(x).hexdigest(): a collision-free digest, one per input.
Sha256Hex(x) == "sha256<" \o x \o ">"

NormalizePhone(phone) == RemoveChar(RemoveChar(Strip(phone), " "), "-")

hash_phone_number(phone) ==
    IF phone = "" THEN phone
    ELSE Sha256Hex(HashSalt \o NormalizePhone(phone))

\* The process-wide Fernet key and the random IVs of Fernet.encrypt, one
\* character each. A token is the version prefix, the key it was made
\* under, its IV and the payload.
FernetKey == "K"
IVs == {"0", "1"}
FernetPrefix == "gAAAAA"

FernetEncrypt(key, iv, data) == FernetPrefix \o key \o iv \o data

encrypt(plaintext, iv) ==
    IF plaintext = "" THEN plaintext
    ELSE FernetEncrypt(FernetKey, iv, plaintext)

\* A faulty variant of the test: only the prefix of the double encoding
\* is recognised.
is_encrypted_double_only(text) ==
    /\ text # ""
    /\ StartsWith(text, "Z0FBQUFB")

is_encrypted(text) ==
    /\ text # ""
    /\ \/ StartsWith(text, "Z0FBQUFB")
       \/ StartsWith(text, FernetPrefix)

\* The prefix of a token encoded a second time: base64 of FernetPrefix.
LegacyPrefix == "Z0FBQUFB"

RECURSIVE Reversed(_)
Reversed(s) ==
    IF Len(s) = 0 THEN s
    ELSE Reversed(SubSeq(s, 2, Len(s))) \o Char(s, 1)

\* base64.urlsafe_b64decode of a text that begins with LegacyPrefix: the
\* first eight characters decode to FernetPrefix, the rest to other bytes
\* (here: the characters in reverse).
UrlsafeB64Decode(text) ==
    FernetPrefix \o Reversed(SubSeq(text, Len(LegacyPrefix) + 1, Len(text)))

\* Fernet.decrypt accepts a token iff it was made under the key (HMAC).
FernetValid(key, token) ==
    /\ StartsWith(token, FernetPrefix \o key)
    /\ Len(token) >= Len(FernetPrefix) + 2
    /\ Char(token, Len(FernetPrefix) + 2) \in IVs

FernetDecrypt(key, token) == SubSeq(token, Len(FernetPrefix) + 3, Len(token))

\* What a caller would see of an exception leaving decrypt.
InvalidToken == "<InvalidToken>"

\* A faulty variant of decrypt: only the double encoding is decoded, a
\* token in Fernet's own encoding is returned as it is.
decrypt_double_only(ciphertext) ==
    IF ciphertext = "" THEN ciphertext
    ELSE IF StartsWith(ciphertext, LegacyPrefix)
    THEN LET encrypted == UrlsafeB64Decode(ciphertext) IN
         IF FernetValid(FernetKey, encrypted)
         THEN FernetDecrypt(FernetKey, encrypted)
         ELSE ciphertext
    ELSE ciphertext

\* A faulty variant of decrypt: the exception of a failed decryption is
\* not caught.
decrypt_unguarded(ciphertext) ==
    IF ciphertext = "" THEN ciphertext
    ELSE IF StartsWith(ciphertext, LegacyPrefix)
    THEN LET encrypted == UrlsafeB64Decode(ciphertext) IN
         IF FernetValid(FernetKey, encrypted)
         THEN FernetDecrypt(FernetKey, encrypted)
         ELSE InvalidToken
    ELSE IF StartsWith(ciphertext, FernetPrefix)
    THEN IF FernetValid(FernetKey, ciphertext)
         THEN FernetDecrypt(FernetKey, ciphertext)
         ELSE InvalidToken
    ELSE ciphertext

\* decrypt: the exception of a failed decryption is caught and the input
\* is returned.
decrypt(ciphertext) ==
    IF ciphertext = "" THEN ciphertext
    ELSE IF StartsWith(ciphertext, LegacyPrefix)
    THEN LET encrypted == UrlsafeB64Decode(ciphertext) IN
         IF FernetValid(FernetKey, encrypted)
         THEN FernetDecrypt(FernetKey, encrypted)
         ELSE ciphertext
    ELSE IF StartsWith(ciphertext, FernetPrefix)
    THEN IF FernetValid(FernetKey, ciphertext)
         THEN FernetDecrypt(FernetKey, ciphertext)
         ELSE ciphertext
    ELSE ciphertext

(* ------------------------- table user_sessions ------------------------ *)
\* A row of UserSession.
UserSession(id, hash, phone, char, touched, created) ==
    [id |-> id, phone_hash |-> hash, phone_number |-> phone,
     current_character |-> char, last_interaction |-> touched,
     created_at |-> created]

\* A faulty variant of the unique index: it accepts every row.
UniquePhoneHashDropped(rows, id, hash) == TRUE

\* unique=True on phone_hash: the index accepts `hash` for row `id` iff it
\* is NULL or no other row holds it.
UniquePhoneHash(rows, id, hash) ==
    \/ hash = NULL
    \/ \A r \in rows : r.id # id => r.phone_hash # hash

\* query(UserSession).filter(phone_hash == h): ids of the matching rows
ByHash(rows, h) == {r.id : r \in {x \in rows : x.phone_hash = h}}

\* A faulty variant of the legacy query: the identifier is not compared.
ByLegacyAny(rows, phone) ==
    {r.id : r \in {x \in rows : x.phone_hash = NULL}}

\* query(UserSession).filter(phone_number == phone, phone_hash IS NULL)
ByLegacyPhone(rows, phone) ==
    {r.id : r \in {x \in rows : x.phone_number = phone /\ x.phone_hash = NULL}}

\* query(UserSession).filter(phone_number == phone)
ByPhone(rows, phone) ==
    {r.id : r \in {x \in rows : x.phone_number = phone}}

Row(rows, id) == CHOOSE r \in rows : r.id = id

\* The identifiers callers use: two spellings of one number and another
\* number.
PhoneNumbers == {"+1555", "+1 55-5", "+1666"}

\* The database before the first call: empty, or holding rows written
\* before hash-indexing existed (no hash, cleartext identifier).
LegacyTables ==
    {{}} \cup
    {{UserSession(1, NULL, "+1555", c, 0, 0)} : c \in Characters} \cup
    {{UserSession(1, NULL, "+1555", "kasho", 0, 0),
      UserSession(2, NULL, "+1666", "yuri", 0, 0)}}

(* --------------------------- caller bookkeeping ----------------------- *)
\* A caller between two store calls.
Idle(p) == pc[p] = "idle"

\* The call moves on: `how` is the next statement, "done" (returned) or
\* "error" (an IntegrityError left the call).
Finish(p, how, branch, res) ==
    /\ pc' = [pc EXCEPT ![p] = how]
    /\ path' = [path EXCEPT ![p] = branch]
    /\ result' = [result EXCEPT ![p] = res]

(* ------------------ SessionManager.get_or_create_session -------------- *)
\* A faulty variant of the lookup: a row found by hash has its identifier
\* encrypted again and committed before it is returned.
GocQueryHashReencrypt(p) ==
    \E phone \in PhoneNumbers :
        /\ Idle(p)
        /\ calls < MaxCalls
        /\ calls' = calls + 1
        /\ phone_number' = [phone_number EXCEPT ![p] = phone]
        /\ character' = [character EXCEPT ![p] = "none"]
        /\ LET found == ByHash(user_sessions, hash_phone_number(phone)) IN
           IF found # {}
           THEN \E id \in found, iv \in IVs :
                    LET old == Row(user_sessions, id)
                        new == [old EXCEPT !.phone_number = encrypt(phone, iv)]
                    IN  /\ user_sessions' = (user_sessions \ {old}) \cup {new}
                        /\ session' = [session EXCEPT ![p] = id]
                        /\ Finish(p, "done", "hash", id)
           ELSE /\ session' = [session EXCEPT ![p] = NoRow]
                /\ user_sessions' = user_sessions
                /\ Finish(p, "goc_legacy", "none", NoRow)
        /\ UNCHANGED <<next_id, now>>
        /\ UNCHANGED routerVars
        /\ UNCHANGED <<historyTableVars, historyCallVars, hashVars, restVars>>

\* The call and its first statement: query by phone_hash, .first().
GocQueryHash(p) ==
    \E phone \in PhoneNumbers :
        /\ Idle(p)
        /\ calls < MaxCalls
        /\ calls' = calls + 1
        /\ phone_number' = [phone_number EXCEPT ![p] = phone]
        /\ character' = [character EXCEPT ![p] = "none"]
        /\ LET found == ByHash(user_sessions, hash_phone_number(phone)) IN
           IF found # {}
           THEN \E id \in found :
                    /\ session' = [session EXCEPT ![p] = id]
                    /\ Finish(p, "done", "hash", id)
           ELSE /\ session' = [session EXCEPT ![p] = NoRow]
                /\ Finish(p, "goc_legacy", "none", NoRow)
        /\ UNCHANGED <<user_sessions, next_id, now>>
        /\ UNCHANGED routerVars
        /\ UNCHANGED <<historyTableVars, historyCallVars, hashVars, restVars>>

\* Fallback: query by cleartext phone_number with phone_hash IS NULL.
GocQueryLegacy(p) ==
    /\ pc[p] = "goc_legacy"
    /\ LET found == ByLegacyPhone(user_sessions, phone_number[p]) IN
       IF found # {}
       THEN \E id \in found :
                /\ session' = [session EXCEPT ![p] = id]
                /\ pc' = [pc EXCEPT ![p] = "goc_migrate"]
       ELSE /\ session' = session
            /\ pc' = [pc EXCEPT ![p] = "goc_insert"]
    /\ UNCHANGED <<user_sessions, next_id, now, phone_number, character,
                   path, result, calls>>
    /\ UNCHANGED routerVars
    /\ UNCHANGED <<historyTableVars, historyCallVars, hashVars, restVars>>

\* A faulty variant of the migration: the hash is set but the identifier
\* is left in cleartext.
MigratedRowCleartext(r, phone, iv, at) ==
    [r EXCEPT !.phone_hash = hash_phone_number(phone),
              !.last_interaction = at]

\* The legacy row as the migration rewrites it (onupdate refreshes
\* last_interaction on every UPDATE).
MigratedRow(r, phone, iv, at) ==
    [r EXCEPT !.phone_hash = hash_phone_number(phone),
              !.phone_number = encrypt(phone, iv),
              !.last_interaction = at]

\* Migrate the legacy row: set phone_hash and phone_number, commit. The
\* UPDATE is rejected (IntegrityError) when another row holds the hash.
GocMigrateCommit(p) ==
    /\ pc[p] = "goc_migrate"
    /\ session[p] \in {r.id : r \in user_sessions}
    /\ \E iv \in IVs :
        LET old == Row(user_sessions, session[p])
            new == MigratedRow(old, phone_number[p], iv, now + 1)
        IN  IF UniquePhoneHash(user_sessions, old.id, new.phone_hash)
            THEN /\ user_sessions' = (user_sessions \ {old}) \cup {new}
                 /\ now' = now + 1
                 /\ Finish(p, "done", "migrate", old.id)
            ELSE /\ UNCHANGED <<user_sessions, now>>
                 /\ Finish(p, "error", "migrate", NoRow)
    /\ UNCHANGED <<next_id, phone_number, character, session, calls>>
    /\ UNCHANGED routerVars
    /\ UNCHANGED <<historyTableVars, historyCallVars, hashVars, restVars>>

\* A faulty variant of the insert: the new session starts with another
\* persona than the default.
NewSessionWrongDefault(id, phone, iv, at) ==
    UserSession(id, hash_phone_number(phone), encrypt(phone, iv), "yuri", at, at)

\* UserSession(phone_hash=..., phone_number=encrypt(...),
\*             current_character="botan")
NewSession(id, phone, iv, at) ==
    UserSession(id, hash_phone_number(phone), encrypt(phone, iv), "botan", at, at)

\* db.add, db.commit, db.refresh. The INSERT is rejected (IntegrityError,
\* not caught) when a row with the hash exists; the sequence value is
\* consumed either way.
GocInsertCommit(p) ==
    /\ pc[p] = "goc_insert"
    /\ \E iv \in IVs :
        LET new == NewSession(next_id, phone_number[p], iv, now + 1) IN
        IF UniquePhoneHash(user_sessions, new.id, new.phone_hash)
        THEN /\ user_sessions' = user_sessions \cup {new}
             /\ now' = now + 1
             /\ session' = [session EXCEPT ![p] = new.id]
             /\ Finish(p, "done", "create", new.id)
        ELSE /\ UNCHANGED <<user_sessions, now, session>>
             /\ Finish(p, "error", "create", NoRow)
    /\ next_id' = next_id + 1
    /\ UNCHANGED <<phone_number, character, calls>>
    /\ UNCHANGED routerVars
    /\ UNCHANGED <<historyTableVars, historyCallVars, hashVars, restVars>>

(* -------------------- SessionManager.update_character ----------------- *)
\* The call and its first statement: query by phone_hash, .first().
UcQueryHash(p) ==
    \E phone \in PhoneNumbers, char \in Characters :
        /\ Idle(p)
        /\ calls < MaxCalls
        /\ calls' = calls + 1
        /\ phone_number' = [phone_number EXCEPT ![p] = phone]
        /\ character' = [character EXCEPT ![p] = char]
        /\ LET found == ByHash(user_sessions, hash_phone_number(phone)) IN
           IF found # {}
           THEN \E id \in found :
                    /\ session' = [session EXCEPT ![p] = id]
                    /\ Finish(p, "uc_commit", "hash", NoRow)
           ELSE /\ session' = [session EXCEPT ![p] = NoRow]
                /\ Finish(p, "uc_plain", "none", NoRow)
        /\ UNCHANGED <<user_sessions, next_id, now>>
        /\ UNCHANGED routerVars
        /\ UNCHANGED <<historyTableVars, historyCallVars, hashVars, restVars>>

\* A faulty variant of the fallback: a session that does not exist is
\* created with the requested persona (an upsert).
UcQueryPlainUpsert(p) ==
    /\ pc[p] = "uc_plain"
    /\ LET found == ByPhone(user_sessions, phone_number[p]) IN
       IF found # {}
       THEN \E id \in found :
                /\ session' = [session EXCEPT ![p] = id]
                /\ user_sessions' = user_sessions
                /\ Finish(p, "uc_commit", "plain", NoRow)
       ELSE /\ session' = session
            /\ user_sessions' = user_sessions \cup
                   {UserSession(next_id + 1, hash_phone_number(phone_number[p]),
                                phone_number[p], character[p], now, now)}
            /\ Finish(p, "done", "absent", NoRow)
    /\ UNCHANGED <<next_id, now, phone_number, character, calls>>
    /\ UNCHANGED routerVars
    /\ UNCHANGED <<historyTableVars, historyCallVars, hashVars, restVars>>

\* Fallback: query by phone_number alone.
UcQueryPlain(p) ==
    /\ pc[p] = "uc_plain"
    /\ LET found == ByPhone(user_sessions, phone_number[p]) IN
       IF found # {}
       THEN \E id \in found :
                /\ session' = [session EXCEPT ![p] = id]
                /\ Finish(p, "uc_commit", "plain", NoRow)
       ELSE \* `if session:` is false: nothing is written
            /\ session' = session
            /\ Finish(p, "done", "absent", NoRow)
    /\ UNCHANGED <<user_sessions, next_id, now, phone_number, character, calls>>
    /\ UNCHANGED routerVars
    /\ UNCHANGED <<historyTableVars, historyCallVars, hashVars, restVars>>

\* session.current_character = character; last_interaction = utcnow();
\* commit.
UcCommit(p) ==
    /\ pc[p] = "uc_commit"
    /\ session[p] \in {r.id : r \in user_sessions}
    /\ LET old == Row(user_sessions, session[p])
           new == [old EXCEPT !.current_character = character[p],
                              !.last_interaction = now + 1]
       IN  /\ user_sessions' = (user_sessions \ {old}) \cup {new}
           /\ now' = now + 1
           /\ Finish(p, "done", path[p], old.id)
    /\ UNCHANGED <<next_id, phone_number, character, session, calls>>
    /\ UNCHANGED routerVars
    /\ UNCHANGED <<historyTableVars, historyCallVars, hashVars, restVars>>

\* The caller has its answer (a session, nothing, or an exception) and is
\* free for its next call.
Return(p) ==
    /\ pc[p] \in {"done", "error"}
    /\ calls < MaxCalls \/ turns < MaxTurns
    /\ pc' = [pc EXCEPT ![p] = "idle"]
    /\ phone_number' = [phone_number EXCEPT ![p] = ""]
    /\ character' = [character EXCEPT ![p] = "none"]
    /\ session' = [session EXCEPT ![p] = NoRow]
    /\ path' = [path EXCEPT ![p] = "none"]
    /\ result' = [result EXCEPT ![p] = NoRow]
    /\ role' = [role EXCEPT ![p] = "none"]
    /\ content' = [content EXCEPT ![p] = ""]
    /\ limit' = [limit EXCEPT ![p] = 0]
    /\ days' = [days EXCEPT ![p] = 0]
    /\ messages' = [messages EXCEPT ![p] = <<>>]
    /\ returned' = [returned EXCEPT ![p] = <<>>]
    /\ deleted' = [deleted EXCEPT ![p] = 0]
    /\ UNCHANGED <<user_sessions, next_id, now, calls>>
    /\ UNCHANGED routerVars
    /\ UNCHANGED <<historyTableVars, hashVars, restVars>>

(* ---------------------------- specification --------------------------- *)
StoreIdle ==
    /\ user_sessions = {}
    /\ next_id = 1
    /\ now = 0
    /\ pc = [p \in Procs |-> "idle"]
    /\ phone_number = [p \in Procs |-> ""]
    /\ character = [p \in Procs |-> "none"]
    /\ session = [p \in Procs |-> NoRow]
    /\ path = [p \in Procs |-> "none"]
    /\ result = [p \in Procs |-> NoRow]
    /\ calls = 0

\* No conversation row, and no conversation call to come.
HistoryIdle ==
    /\ conversation_history = {}
    /\ next_message_id = 1
    /\ turns = MaxTurns
    /\ role = [p \in Procs |-> "none"]
    /\ content = [p \in Procs |-> ""]
    /\ limit = [p \in Procs |-> 0]
    /\ days = [p \in Procs |-> 0]
    /\ messages = [p \in Procs |-> <<>>]
    /\ returned = [p \in Procs |-> <<>>]
    /\ deleted = [p \in Procs |-> 0]

HashIdle ==
    /\ spelling = <<"", "">>
    /\ digest = <<"", "">>
    /\ hpc = "off"

CipherIdle ==
    /\ original = ""
    /\ cipher = ""
    /\ stored_value = <<"plaintext", "">>
    /\ opened = <<"", "">>
    /\ looks_encrypted = <<FALSE, FALSE>>
    /\ served = <<>>
    /\ cpc = "off"

RecordIdle ==
    /\ rec_table = ""
    /\ rec_given = <<>>
    /\ rec_encrypted = <<>>
    /\ rec_decrypted = <<>>
    /\ recpc = "off"

\* No message in the webhook, and none to come.
WebhookIdle ==
    /\ Body = [p \in Procs |-> ""]
    /\ session_character = [p \in Procs |-> "none"]
    /\ selected_character = [p \in Procs |-> "none"]
    /\ twiml_response = [p \in Procs |-> <<>>]
    /\ appended = [p \in Procs |-> <<>>]
    /\ disturbed = [p \in Procs |-> FALSE]
    /\ deliveries = MaxDeliveries

\* What a call returns before any call: nothing.
NoAnswer == [kind |-> "none", val |-> "none"]

\* No call on the in-memory store, and none to come.
SimpleIdle ==
    /\ sessions = [x \in {} |-> x]
    /\ simple_returned = NoAnswer
    /\ manager_returned = NoAnswer
    /\ ops = MaxOps

RestIdle ==
    /\ CipherIdle
    /\ RecordIdle
    /\ WebhookIdle
    /\ SimpleIdle

RouterIdle ==
    /\ message = ""
    /\ current_character = "botan"
    /\ threshold = 0
    /\ scores = [botan |-> 0, kasho |-> 0, yuri |-> 0]
    /\ selected = "none"
    /\ rpc = "off"

Init ==
    /\ user_sessions \in LegacyTables
    /\ next_id = Cardinality(user_sessions) + 1
    /\ now = 0
    /\ pc = [p \in Procs |-> "idle"]
    /\ phone_number = [p \in Procs |-> ""]
    /\ character = [p \in Procs |-> "none"]
    /\ session = [p \in Procs |-> NoRow]
    /\ path = [p \in Procs |-> "none"]
    /\ result = [p \in Procs |-> NoRow]
    /\ calls = 0
    /\ RouterIdle
    /\ HistoryIdle
    /\ HashIdle
    /\ RestIdle

Next ==
    \E p \in Procs :
        \/ GocQueryHash(p)
        \/ GocQueryLegacy(p)
        \/ GocMigrateCommit(p)
        \/ GocInsertCommit(p)
        \/ UcQueryHash(p)
        \/ UcQueryPlain(p)
        \/ UcCommit(p)
        \/ Return(p)

Spec == Init /\ [][Next]_vars

(* ====================== table conversation_history ==================== *)
\* A row of ConversationHistory.
ConversationHistory(id, hash, phone, char, r, c, at) ==
    [id |-> id, phone_hash |-> hash, phone_number |-> phone, character |-> char,
     role |-> r, content |-> c, timestamp |-> at]

\* The persona argument left out (None): `if character:` is false.
NoCharacter == "none"

\* A faulty variant of the hash query: rows without a hash match too.
HistoryByHashOrNull(rows, h, c) ==
    {r \in rows : /\ r.phone_hash = h \/ r.phone_hash = NULL
                  /\ (c # NoCharacter => r.character = c)}

\* query(ConversationHistory).filter(phone_hash == h [, character == c])
HistoryByHash(rows, h, c) ==
    {r \in rows : r.phone_hash = h /\ (c # NoCharacter => r.character = c)}

\* query(ConversationHistory).filter(phone_number == phone,
\*                                   phone_hash IS NULL [, character == c])
HistoryByLegacyPhone(rows, phone, c) ==
    {r \in rows : /\ r.phone_number = phone
                  /\ r.phone_hash = NULL
                  /\ (c # NoCharacter => r.character = c)}

\* .order_by(desc(timestamp)).limit(n).all(): every list the database may
\* answer with, rows of one timestamp in any order.
RECURSIVE OrderByTimestampDesc(_, _)
OrderByTimestampDesc(rows, n) ==
    IF n = 0 \/ rows = {} THEN {<<>>}
    ELSE UNION {{<<r>> \o rest : rest \in OrderByTimestampDesc(rows \ {r}, n - 1)} :
                r \in {x \in rows : \A y \in rows : y.timestamp <= x.timestamp}}

\* A faulty variant of the reversal: the list is left newest first.
NotReversed(list) == list

\* list.reverse()
Reverse(list) == [i \in 1..Len(list) |-> list[Len(list) + 1 - i]]

\* A faulty variant of the returned list: the stored content is handed
\* out as it is.
Undecrypted(list) ==
    [i \in 1..Len(list) |-> [role |-> list[i].role, content |-> list[i].content]]

\* The returned list: role and content of each row, the content decrypted
\* when it looks encrypted.
Decrypted(list) ==
    [i \in 1..Len(list) |->
        [role |-> list[i].role,
         content |-> IF is_encrypted(list[i].content)
                     THEN decrypt(list[i].content)
                     ELSE list[i].content]]

\* The rows of a set as a list, by ascending id.
RECURSIVE ById(_)
ById(rows) ==
    IF rows = {} THEN <<>>
    ELSE LET r == CHOOSE x \in rows : \A y \in rows : x.id <= y.id
         IN  <<r>> \o ById(rows \ {r})

Range(list) == {list[i] : i \in 1..Len(list)}

\* The add_message calls of the model: identifier, persona, role (the two
\* the webhook uses and one it does not) and content (a text, the empty
\* text, a text that begins like a token).
AddMessageCalls ==
    {<<"+1555", "botan", "user", "hi">>,
     <<"+1555", "botan", "assistant", "gAAAAAhi">>,
     <<"+1 55-5", "kasho", "user", "hi">>,
     <<"+1666", "yuri", "user", "">>,
     <<"+1666", "botan", "system", "hi">>}

\* The get_conversation_history calls of the model: identifier and
\* persona filter.
HistoryCalls ==
    {<<"+1555", NoCharacter>>, <<"+1555", "botan">>,
     <<"+1 55-5", NoCharacter>>, <<"+1666", "botan">>}

\* Callers are interchangeable: a conversation or erasure call is served
\* by the first idle one.
Takes(p) == Idle(p) /\ \A q \in Procs : q < p => ~Idle(q)

(* ---------------------- SessionManager.add_message -------------------- *)
\* The call: the arguments are bound; hashing and encryption are local.
AmCall(p) ==
    \E call \in AddMessageCalls :
        /\ Takes(p)
        /\ turns < MaxTurns
        /\ turns' = turns + 1
        /\ phone_number' = [phone_number EXCEPT ![p] = call[1]]
        /\ character' = [character EXCEPT ![p] = call[2]]
        /\ role' = [role EXCEPT ![p] = call[3]]
        /\ content' = [content EXCEPT ![p] = call[4]]
        /\ Finish(p, "am_commit", "add", NoRow)
        /\ UNCHANGED <<user_sessions, next_id, now, session, calls>>
        /\ UNCHANGED <<conversation_history, next_message_id>>
        /\ UNCHANGED <<limit, days, messages, returned, deleted>>
        /\ UNCHANGED <<routerVars, hashVars, restVars>>

\* The IVs of the two encrypt calls of one add_message: two draws of the
\* random source, which do not coincide.
IVPairs == {iv \in IVs \X IVs : iv[1] # iv[2]}

\* ConversationHistory(phone_hash=..., phone_number=encrypt(...),
\*                     character=..., role=..., content=encrypt(...))
NewMessage(id, phone, char, r, c, iv, at) ==
    ConversationHistory(id, hash_phone_number(phone), encrypt(phone, iv[1]),
                        char, r, encrypt(c, iv[2]), at)

\* A faulty variant of the insert: a turn the log already holds, with the
\* same identifier, persona, role and text, is not stored again.
AmCommitMerging(p) ==
    /\ pc[p] = "am_commit"
    /\ \E iv \in IVPairs :
        LET new == NewMessage(next_message_id, phone_number[p], character[p],
                              role[p], content[p], iv, now + 1)
            same == {r \in conversation_history :
                        /\ r.phone_hash = new.phone_hash
                        /\ r.character = new.character
                        /\ r.role = new.role
                        /\ decrypt(r.content) = content[p]}
        IN  IF same = {}
            THEN /\ conversation_history' = conversation_history \cup {new}
                 /\ Finish(p, "done", "add", new.id)
            ELSE /\ conversation_history' = conversation_history
                 /\ Finish(p, "done", "add", (CHOOSE r \in same : TRUE).id)
    /\ next_message_id' = next_message_id + 1
    /\ now' = now + 1
    /\ UNCHANGED <<user_sessions, next_id, phone_number, character, session, calls>>
    /\ UNCHANGED <<turns, historyCallVars>>
    /\ UNCHANGED <<routerVars, hashVars, restVars>>

\* A faulty variant of the insert: the caller's earlier rows are stamped
\* again with the time of the new row.
AmCommitTouching(p) ==
    /\ pc[p] = "am_commit"
    /\ \E iv \in IVPairs :
        LET new == NewMessage(next_message_id, phone_number[p], character[p],
                              role[p], content[p], iv, now + 1)
            touched == {[r EXCEPT !.timestamp =
                               IF r.phone_hash = new.phone_hash
                               THEN now + 1 ELSE r.timestamp] :
                        r \in conversation_history}
        IN  /\ conversation_history' = touched \cup {new}
            /\ Finish(p, "done", "add", new.id)
    /\ next_message_id' = next_message_id + 1
    /\ now' = now + 1
    /\ UNCHANGED <<user_sessions, next_id, phone_number, character, session, calls>>
    /\ UNCHANGED <<turns, historyCallVars>>
    /\ UNCHANGED <<routerVars, hashVars, restVars>>

\* db.add, db.commit: one INSERT, the id from the sequence, the timestamp
\* from the server clock.
AmCommit(p) ==
    /\ pc[p] = "am_commit"
    /\ \E iv \in IVPairs :
        LET new == NewMessage(next_message_id, phone_number[p], character[p],
                              role[p], content[p], iv, now + 1)
        IN  /\ conversation_history' = conversation_history \cup {new}
            /\ Finish(p, "done", "add", new.id)
    /\ next_message_id' = next_message_id + 1
    /\ now' = now + 1
    /\ UNCHANGED <<user_sessions, next_id, phone_number, character, session, calls>>
    /\ UNCHANGED <<turns, historyCallVars>>
    /\ UNCHANGED <<routerVars, hashVars, restVars>>

(* --------------- SessionManager.get_conversation_history -------------- *)
\* The call and its first query: by phone_hash, newest first, limited.
GhQueryHash(p) ==
    \E call \in HistoryCalls, n \in 0..MaxLimit :
        /\ Takes(p)
        /\ turns < MaxTurns
        /\ turns' = turns + 1
        /\ phone_number' = [phone_number EXCEPT ![p] = call[1]]
        /\ character' = [character EXCEPT ![p] = call[2]]
        /\ limit' = [limit EXCEPT ![p] = n]
        /\ \E found \in OrderByTimestampDesc(
                  HistoryByHash(conversation_history,
                                hash_phone_number(call[1]), call[2]), n) :
              IF found # <<>>
              THEN /\ messages' = [messages EXCEPT ![p] = Reverse(found)]
                   /\ returned' = [returned EXCEPT ![p] = Decrypted(Reverse(found))]
                   /\ Finish(p, "done", "gh_hash", NoRow)
              ELSE /\ UNCHANGED <<messages, returned>>
                   /\ Finish(p, "gh_legacy", "none", NoRow)
        /\ UNCHANGED <<user_sessions, next_id, now, session, calls>>
        /\ UNCHANGED <<conversation_history, next_message_id>>
        /\ UNCHANGED <<role, content, days, deleted>>
        /\ UNCHANGED <<routerVars, hashVars, restVars>>

\* `if not messages`: the legacy query by cleartext phone_number.
GhQueryLegacy(p) ==
    /\ pc[p] = "gh_legacy"
    /\ \E found \in OrderByTimestampDesc(
              HistoryByLegacyPhone(conversation_history, phone_number[p], character[p]),
              limit[p]) :
          /\ messages' = [messages EXCEPT ![p] = Reverse(found)]
          /\ returned' = [returned EXCEPT ![p] = Decrypted(Reverse(found))]
          /\ Finish(p, "done", "gh_legacy", NoRow)
    /\ UNCHANGED <<user_sessions, next_id, now, phone_number, character, session, calls>>
    /\ UNCHANGED <<historyTableVars, role, content, limit, days, deleted>>
    /\ UNCHANGED <<routerVars, hashVars, restVars>>

(* ------------------- SessionManager.clear_old_history ----------------- *)
\* A faulty variant of the comparison: a row as old as the cutoff goes too.
NotNewerThan(at, cutoff) == at <= cutoff

\* timestamp < cutoff_date
OlderThan(at, cutoff) == at < cutoff

\* A faulty variant of the pruning: sessions not used since the cutoff
\* are deleted with the conversation rows.
ClearOldHistoryAndSessions(p) ==
    \E age \in 0..MaxDays :
        /\ Takes(p)
        /\ turns < MaxTurns
        /\ turns' = turns + 1
        /\ days' = [days EXCEPT ![p] = age]
        /\ LET old == {r \in conversation_history : OlderThan(r.timestamp, now - age)}
           IN  /\ conversation_history' = conversation_history \ old
               /\ deleted' = [deleted EXCEPT ![p] = Cardinality(old)]
        /\ user_sessions' =
               {r \in user_sessions : ~OlderThan(r.last_interaction, now - age)}
        /\ Finish(p, "done", "clear", NoRow)
        /\ UNCHANGED <<next_id, now, phone_number, character, session, calls>>
        /\ UNCHANGED <<next_message_id, role, content, limit, messages, returned>>
        /\ UNCHANGED <<routerVars, hashVars, restVars>>

\* cutoff_date = utcnow() - timedelta(days); one DELETE; commit; the
\* number of rows deleted is returned.
ClearOldHistory(p) ==
    \E age \in 0..MaxDays :
        /\ Takes(p)
        /\ turns < MaxTurns
        /\ turns' = turns + 1
        /\ days' = [days EXCEPT ![p] = age]
        /\ LET old == {r \in conversation_history : OlderThan(r.timestamp, now - age)}
           IN  /\ conversation_history' = conversation_history \ old
               /\ deleted' = [deleted EXCEPT ![p] = Cardinality(old)]
        /\ Finish(p, "done", "clear", NoRow)
        /\ UNCHANGED <<user_sessions, next_id, now, phone_number, character,
                       session, calls>>
        /\ UNCHANGED <<next_message_id, role, content, limit, messages, returned>>
        /\ UNCHANGED <<routerVars, hashVars, restVars>>

(* ---------------------- DataManager.delete_user_data ------------------ *)
\* The call and its first statement: DELETE FROM conversation_history
\* WHERE phone_number = %s, in a transaction that is still open.
DudDeleteHistory(p) ==
    \E phone \in PhoneNumbers :
        /\ Takes(p)
        /\ turns < MaxTurns
        /\ turns' = turns + 1
        /\ phone_number' = [phone_number EXCEPT ![p] = phone]
        /\ messages' = [messages EXCEPT ![p] =
               ById({r \in conversation_history : r.phone_number = phone})]
        /\ Finish(p, "dud_sessions", "erase", NoRow)
        /\ UNCHANGED <<user_sessions, next_id, now, character, session, calls>>
        /\ UNCHANGED <<conversation_history, next_message_id>>
        /\ UNCHANGED <<role, content, limit, days, returned, deleted>>
        /\ UNCHANGED <<routerVars, hashVars, restVars>>

\* DELETE FROM user_sessions WHERE phone_number = %s; conn.commit(): both
\* deletions take effect.
DudDeleteSessions(p) ==
    /\ pc[p] = "dud_sessions"
    /\ conversation_history' = conversation_history \ Range(messages[p])
    /\ user_sessions' = {r \in user_sessions : r.phone_number # phone_number[p]}
    /\ Finish(p, "done", "erase", NoRow)
    /\ UNCHANGED <<next_id, now, phone_number, character, session, calls>>
    /\ UNCHANGED <<next_message_id, turns, historyCallVars>>
    /\ UNCHANGED <<routerVars, hashVars, restVars>>

(* ------------------------- specifications ----------------------------- *)
\* The database before the first call of a behaviour, session rows and
\* conversation rows: empty; rows written before hash-indexing existed
\* (cleartext identifier and content); rows the store wrote, two of the
\* conversation rows within one tick of the clock.
Databases ==
    {<<{}, {}>>,
     <<{UserSession(1, NULL, "+1555", "kasho", 0, 0),
        UserSession(2, NULL, "+1666", "yuri", 0, 0)},
       {ConversationHistory(1, NULL, "+1555", "botan", "user", "hi", 0),
        ConversationHistory(2, NULL, "+1555", "botan", "assistant", "gAAAAAhi", 1)}>>,
     <<{NewSession(1, "+1555", "0", 1)},
       {NewMessage(1, "+1555", "botan", "user", "hi", <<"0", "1">>, 1),
        NewMessage(2, "+1555", "botan", "assistant", "ok", <<"1", "0">>, 1),
        NewMessage(3, "+1555", "kasho", "user", "yo", <<"1", "0">>, 2)}>>}

\* A store that has served calls before, its callers idle.
Serving ==
    /\ \E db \in Databases :
          /\ user_sessions = db[1]
          /\ conversation_history = db[2]
    /\ next_id = Cardinality(user_sessions) + 1
    /\ next_message_id = Cardinality(conversation_history) + 1
    /\ now = 2
    /\ pc = [p \in Procs |-> "idle"]
    /\ phone_number = [p \in Procs |-> ""]
    /\ character = [p \in Procs |-> "none"]
    /\ session = [p \in Procs |-> NoRow]
    /\ path = [p \in Procs |-> "none"]
    /\ result = [p \in Procs |-> NoRow]
    /\ role = [p \in Procs |-> "none"]
    /\ content = [p \in Procs |-> ""]
    /\ limit = [p \in Procs |-> 0]
    /\ days = [p \in Procs |-> 0]
    /\ messages = [p \in Procs |-> <<>>]
    /\ returned = [p \in Procs |-> <<>>]
    /\ deleted = [p \in Procs |-> 0]
    /\ RouterIdle
    /\ HashIdle
    /\ RestIdle

\* The conversation store: MaxTurns calls to come.
InitHistory ==
    /\ Serving
    /\ calls = MaxCalls
    /\ turns = 0

NextHistory ==
    \E p \in Procs :
        \/ AmCall(p)
        \/ AmCommit(p)
        \/ GhQueryHash(p)
        \/ GhQueryLegacy(p)
        \/ ClearOldHistory(p)
        \/ Return(p)

SpecHistory == InitHistory /\ [][NextHistory]_vars

\* The whole store: one session call and one conversation or erasure
\* call to come, by any callers, in any interleaving.
InitStore ==
    /\ Serving
    /\ calls = MaxCalls - 1
    /\ turns = MaxTurns - 1

NextStore ==
    \E p \in Procs :
        \/ GocQueryHash(p)
        \/ GocQueryLegacy(p)
        \/ GocMigrateCommit(p)
        \/ GocInsertCommit(p)
        \/ UcQueryHash(p)
        \/ UcQueryPlain(p)
        \/ UcCommit(p)
        \/ AmCall(p)
        \/ AmCommit(p)
        \/ GhQueryHash(p)
        \/ GhQueryLegacy(p)
        \/ ClearOldHistory(p)
        \/ DudDeleteHistory(p)
        \/ DudDeleteSessions(p)
        \/ Return(p)

SpecStore == InitStore /\ [][NextStore]_vars

(* ================= hash_phone_number on spellings ===================== *)
\* Spellings of two numbers: with and without the leading "+", with
\* whitespace around, with spaces and hyphens between the digits.
Spellings ==
    {lead \o plus \o digits \o trail :
        lead \in {"", " "}, plus \in {"", "+"},
        digits \in {"1555", "1 555", "1-55 5", "1666"}, trail \in {"", "\n"}}

\* hash_phone_number applied to each of two identifiers.
HashPhoneNumbers ==
    /\ hpc = "call"
    /\ digest' = <<hash_phone_number(spelling[1]), hash_phone_number(spelling[2])>>
    /\ hpc' = "ret"
    /\ UNCHANGED spelling

InitHash ==
    /\ StoreIdle
    /\ RestIdle
    /\ HistoryIdle
    /\ RouterIdle
    /\ spelling \in Spellings \X Spellings
    /\ digest = <<"", "">>
    /\ hpc = "call"

NextHash ==
    HashPhoneNumbers
    /\ UNCHANGED <<storeVars, routerVars, historyTableVars, historyCallVars,
                   restVars>>

SpecHash == InitHash /\ [][NextHash]_vars

(* ============================ TopicAnalyzer =========================== *)
UpperLetters == "ABCDEFGHIJKLMNOPQRSTUVWXYZ"
LowerLetters == "abcdefghijklmnopqrstuvwxyz"
Digits == "0123456789"

CharsOf(s) == {Char(s, i) : i \in 1..Len(s)}
UpperChars == CharsOf(UpperLetters)

\* \w of the re module on the ASCII range
WordChars == CharsOf(UpperLetters) \cup CharsOf(LowerLetters) \cup CharsOf(Digits) \cup {"_"}

LowerChar(c) ==
    IF c \in UpperChars
    THEN Char(LowerLetters, CHOOSE i \in 1..Len(UpperLetters) : Char(UpperLetters, i) = c)
    ELSE c

\* str.lower()
RECURSIVE Lower(_)
Lower(s) ==
    IF Len(s) = 0 THEN s
    ELSE LowerChar(Char(s, 1)) \o Lower(SubSeq(s, 2, Len(s)))

\* len(message.split()): the maximal runs of non-whitespace
SplitCount(s) ==
    Cardinality({i \in 1..Len(s) :
        /\ Char(s, i) \notin Whitespace
        /\ (i = 1 \/ Char(s, i - 1) \in Whitespace)})

BOTAN_KEYWORDS ==
    <<"stream", "streaming", "twitch", "youtube", "content", "creator",
      "video", "vtuber", "virtual", "avatar", "twitter", "instagram",
      "tiktok", "social media", "viral", "trending", "followers",
      "likes", "post", "feed", "movie", "show", "series", "netflix",
      "anime", "manga", "celebrity", "actor", "actress",
      "entertainment", "meme", "trend", "popular", "culture",
      "fashion", "style", "party", "event", "meet", "hangout",
      "friend", "social">>

KASHO_KEYWORDS ==
    <<"music", "song", "album", "artist", "band", "guitar", "piano",
      "drum", "instrument", "melody", "rhythm", "chord", "note",
      "compose", "production", "record", "studio", "beat", "career",
      "job", "work", "professional", "advice", "help", "decision",
      "choose", "problem", "solve", "relationship", "love", "dating",
      "breakup", "friend", "family", "goal", "plan", "future", "grow",
      "improve", "develop", "success", "balance", "stress", "worry",
      "concern">>

YURI_KEYWORDS ==
    <<"book", "read", "novel", "story", "author", "writer",
      "literature", "fiction", "poetry", "poem", "write", "writing",
      "science fiction", "sci-fi", "fantasy", "dragon", "magic",
      "space", "alien", "future", "dystopia", "utopia", "philosophy",
      "meaning", "existence", "why", "purpose", "think", "thought",
      "idea", "concept", "theory", "creative", "imagination", "indie",
      "underground", "alternative", "art", "artistic", "experimental",
      "unique", "weird">>

\* The order of the keys of the scores dict, which max() scans.
CharacterOrder == <<"botan", "kasho", "yuri">>

KeywordsOf(c) ==
    CASE c = "botan" -> BOTAN_KEYWORDS
      [] c = "kasho" -> KASHO_KEYWORDS
      [] c = "yuri" -> YURI_KEYWORDS

IsWordAt(s, i) == i >= 1 /\ i <= Len(s) /\ Char(s, i) \in WordChars

\* \b between the characters i-1 and i of s
Boundary(s, i) == IsWordAt(s, i - 1) # IsWordAt(s, i)

\* \b(kw)\b matches s at i
KeywordAt(s, i, kw) ==
    /\ i + Len(kw) - 1 <= Len(s)
    /\ SubSeq(s, i, i + Len(kw) - 1) = kw
    /\ Boundary(s, i)
    /\ Boundary(s, i + Len(kw))

\* Every keyword of every list begins with a word character, so that the
\* leading \b of the pattern only holds at the first character of a word.
KeywordsBeginWithWordChar ==
    \A c \in Characters :
        \A k \in 1..Len(KeywordsOf(c)) : IsWordAt(KeywordsOf(c)[k], 1)

\* The alternation at i: the length of the first keyword, in the order of
\* the list, that matches there, or 0 (no keyword starts where \b fails).
AlternationAt(s, i, kws) ==
    IF ~Boundary(s, i) \/ (KeywordsBeginWithWordChar /\ ~IsWordAt(s, i)) THEN 0
    ELSE LET hits == {k \in 1..Len(kws) : KeywordAt(s, i, kws[k])} IN
         IF hits = {} THEN 0
         ELSE Len(kws[CHOOSE k \in hits : \A j \in hits : k <= j])

\* len(pattern.findall(s)): leftmost matches, not overlapping, from i on
RECURSIVE FindallCount(_, _, _)
FindallCount(s, i, kws) ==
    IF i > Len(s) THEN 0
    ELSE LET n == AlternationAt(s, i, kws) IN
         IF n = 0 THEN FindallCount(s, i + 1, kws)
         ELSE 1 + FindallCount(s, i + n, kws)

\* any(word in message for word in words)
AnyIn(s, words) == \E w \in words : Contains(s, w)

\* The bonuses, in hundredths.
StrongBonus == 50
QuestionBonus == 30

\* A faulty variant of the bonuses: every leading "how" earns the question
\* bonus, whatever follows.
BonusAnyHow(lowered, c) ==
    CASE c = "botan" ->
            IF AnyIn(lowered, {"vtuber", "streaming", "viral", "trending"})
            THEN StrongBonus ELSE 0
      [] c = "kasho" ->
            (IF AnyIn(lowered, {"music", "advice", "help me", "what should i"})
             THEN StrongBonus ELSE 0)
            + (IF StartsWith(lowered, "how") THEN QuestionBonus ELSE 0)
      [] c = "yuri" ->
            (IF AnyIn(lowered, {"book", "philosophy", "why", "meaning"})
             THEN StrongBonus ELSE 0)
            + (IF StartsWith(lowered, "why") THEN QuestionBonus ELSE 0)

\* _apply_bonuses: what it adds to the score of c, in hundredths
Bonus(lowered, c) ==
    CASE c = "botan" ->
            IF AnyIn(lowered, {"vtuber", "streaming", "viral", "trending"})
            THEN StrongBonus ELSE 0
      [] c = "kasho" ->
            (IF AnyIn(lowered, {"music", "advice", "help me", "what should i"})
             THEN StrongBonus ELSE 0)
            + (IF /\ \E q \in {"what", "how", "why", "when", "where"} : StartsWith(lowered, q)
                  /\ ~StartsWith(lowered, "why")
                  /\ StartsWith(lowered, "how")
                  /\ AnyIn(lowered, {"should", "can i", "do i"})
               THEN QuestionBonus ELSE 0)
      [] c = "yuri" ->
            (IF AnyIn(lowered, {"book", "philosophy", "why", "meaning"})
             THEN StrongBonus ELSE 0)
            + (IF /\ \E q \in {"what", "how", "why", "when", "where"} : StartsWith(lowered, q)
                  /\ StartsWith(lowered, "why")
               THEN QuestionBonus ELSE 0)

\* word_count of analyze
WordCount(msg) == IF SplitCount(msg) = 0 THEN 1 ELSE SplitCount(msg)

\* Scores are exact fractions over the common denominator
\* 100 * WordCount(msg): matches / word_count is 100 * matches, a bonus of
\* b hundredths is b * word_count.
analyze(msg) ==
    LET lowered == Lower(msg)
        score(c) == 100 * FindallCount(lowered, 1, KeywordsOf(c))
                        + Bonus(lowered, c) * WordCount(msg)
    IN  [botan |-> score("botan"), kasho |-> score("kasho"), yuri |-> score("yuri")]

\* max(scores.items(), key=score): the first key, in dict order, whose
\* score no other exceeds
BestCharacter(sc) ==
    LET best == CHOOSE i \in 1..Len(CharacterOrder) :
                    /\ \A j \in 1..Len(CharacterOrder) :
                           sc[CharacterOrder[j]] <= sc[CharacterOrder[i]]
                    /\ \A j \in 1..(i - 1) :
                           sc[CharacterOrder[j]] < sc[CharacterOrder[i]]
    IN  CharacterOrder[best]

\* A faulty variant of the decision: the boundary counts as a switch.
decide_inclusive(sc, current, thr, wc) ==
    IF sc[BestCharacter(sc)] >= sc[current] + thr * wc
    THEN BestCharacter(sc) ELSE current

\* best[1] > scores[current_character] + threshold, thr in hundredths and
\* wc the word count the scores are scaled by
decide(sc, current, thr, wc) ==
    IF sc[BestCharacter(sc)] > sc[current] + thr * wc
    THEN BestCharacter(sc) ELSE current

\* A faulty variant of select_character: a persona named anywhere in the
\* message is selected.
select_character_by_mention(msg, current, thr) ==
    LET sc == analyze(msg) IN
    IF \E c \in Characters : Contains(Lower(msg), c)
    THEN <<CHOOSE c \in Characters : Contains(Lower(msg), c), sc>>
    ELSE <<decide(sc, current, thr, WordCount(msg)), sc>>

\* select_character: the tuple (selected_character, scores) it returns
select_character(msg, current, thr) ==
    LET sc == analyze(msg) IN
    <<decide(sc, current, thr, WordCount(msg)), sc>>

\* The thresholds in use, in hundredths: the default of select_character
\* and the default of CHARACTER_SWITCH_THRESHOLD.
DefaultThreshold == 30
ConfigThreshold == 40
Thresholds == {DefaultThreshold, ConfigThreshold}

\* The whitespace-separated chunks messages are made of.
Vocabulary ==
    {"Botan,", "botan", "Hey", "what", "how", "why", "should", "I", "stream", "song"}

RECURSIVE MessagesOf(_)
MessagesOf(n) ==
    IF n = 1 THEN Vocabulary
    ELSE {m \o " " \o w : m \in MessagesOf(n - 1), w \in Vocabulary}

Messages == UNION {MessagesOf(n) : n \in 1..MaxWords}

\* topic_analyzer.select_character(Body, current_character, threshold)
SelectCharacter ==
    /\ rpc = "call"
    /\ LET ret == select_character(message, current_character, threshold) IN
           /\ selected' = ret[1]
           /\ scores' = ret[2]
    /\ rpc' = "ret"
    /\ UNCHANGED <<message, current_character, threshold>>

InitRouter ==
    /\ StoreIdle
    /\ HistoryIdle
    /\ HashIdle
    /\ RestIdle
    /\ message \in Messages
    /\ current_character \in Characters
    /\ threshold \in Thresholds
    /\ scores = [botan |-> 0, kasho |-> 0, yuri |-> 0]
    /\ selected = "none"
    /\ rpc = "call"

NextRouter ==
    SelectCharacter
    /\ UNCHANGED <<storeVars, historyTableVars, historyCallVars, hashVars, restVars>>

SpecRouter == InitRouter /\ [][NextRouter]_vars

(* ======================= claims: session store ======================== *)
Hashed(rows, phone) == {r \in rows : r.phone_hash = hash_phone_number(phone)}
Legacy(rows, phone) == {r \in rows : r.phone_hash = NULL /\ r.phone_number = phone}
Cleartext(rows, phone) == {r \in rows : r.phone_number = phone}

\* The step is the first statement of a get_or_create_session call of p.
GocStarts(p) == pc[p] = "idle" /\ pc'[p] \in {"done", "goc_legacy"}
\* The step is the first statement of an update_character call of p.
UcStarts(p) == pc[p] = "idle" /\ pc'[p] \in {"uc_commit", "uc_plain"}
\* The step runs the statement p stood at.
Runs(p, at) == pc[p] = at /\ pc'[p] # at

\* C1: in every reachable state, whatever the interleaving of the callers,
\* no two rows of user_sessions hold the same non-null phone_hash (and no
\* two rows share an id).
C1_OneRowPerHash ==
    \A r1, r2 \in user_sessions :
        /\ (r1.phone_hash # NULL /\ r1.phone_hash = r2.phone_hash) => r1.id = r2.id
        /\ r1.id = r2.id => r1 = r2

\* Two callers raced to create the same identifier and one row is there.
C1_Witness ==
    \E p, q \in Procs :
        /\ p # q
        /\ path[p] = "create" /\ path[q] = "create"
        /\ pc[p] = "done" /\ pc[q] \in {"done", "error"}
        /\ hash_phone_number(phone_number[p]) = hash_phone_number(phone_number[q])
        /\ Cardinality(Hashed(user_sessions, phone_number[p])) = 1

\* C2: when two get_or_create_session calls for the same new identifier
\* both miss and both insert, neither caller gets an error: both return
\* the one surviving row.
C2_RaceReturnsSurvivor ==
    \A p, q \in Procs :
        ( /\ p # q
          /\ path[p] = "create" /\ path[q] = "create"
          /\ pc[p] \in {"done", "error"} /\ pc[q] \in {"done", "error"}
          /\ hash_phone_number(phone_number[p]) = hash_phone_number(phone_number[q]) )
        => /\ pc[p] = "done" /\ pc[q] = "done"
           /\ result[p] = result[q]
           /\ Cardinality(Hashed(user_sessions, phone_number[p])) = 1

\* C3: a get_or_create_session(id) step taken while no row has hash(id) and
\* a legacy row (null hash, cleartext id) exists goes on to the migration,
\* and the migration rewrites that same row in place: it gets hash(id) and
\* an encrypted identifier, keeps its id and persona, every other row and
\* the number of rows are unchanged, and the row is returned.
C3_MigratesInPlace ==
    [][\A p \in Procs :
        LET phone == phone_number[p]
            pre == Hashed(user_sessions, phone) = {} /\ Legacy(user_sessions, phone) # {}
        IN  /\ (Runs(p, "goc_legacy") /\ pre) =>
                    /\ pc'[p] = "goc_migrate"
                    /\ session'[p] \in {r.id : r \in Legacy(user_sessions, phone)}
                    /\ user_sessions' = user_sessions
            /\ (Runs(p, "goc_migrate") /\ pre) =>
                    /\ pc'[p] = "done"
                    /\ result'[p] = session[p]
                    /\ Cardinality(user_sessions') = Cardinality(user_sessions)
                    /\ \E old \in Legacy(user_sessions, phone), new \in user_sessions' :
                           /\ old.id = session[p] /\ new.id = old.id
                           /\ new.phone_hash = hash_phone_number(phone)
                           /\ is_encrypted(new.phone_number)
                           /\ new.phone_number \in {encrypt(phone, iv) : iv \in IVs}
                           /\ new.current_character = old.current_character
                           /\ user_sessions' \ {new} = user_sessions \ {old}
      ]_vars

\* A call has migrated a legacy row and returned it.
C3_Witness ==
    \E p \in Procs :
        /\ pc[p] = "done" /\ path[p] = "migrate"
        /\ \E r \in user_sessions :
               /\ r.id = result[p]
               /\ r.phone_hash = hash_phone_number(phone_number[p])
               /\ is_encrypted(r.phone_number)
               /\ r.current_character # "botan"

\* C4: a get_or_create_session call that starts when a row already holds
\* hash(id) (so every call after the one that migrated a legacy row)
\* returns that row and changes nothing: no row is rewritten, none is
\* added.
C4_SecondCallNoOp ==
    [][\A p \in Procs :
        (GocStarts(p) /\ Hashed(user_sessions, phone_number'[p]) # {}) =>
            /\ pc'[p] = "done"
            /\ result'[p] \in {r.id : r \in Hashed(user_sessions, phone_number'[p])}
            /\ user_sessions' = user_sessions
            /\ next_id' = next_id
      ]_vars

\* One call migrated a legacy row, another call for the same identifier
\* found it by hash and returned the same row.
C4_Witness ==
    \E p, q \in Procs :
        /\ p # q
        /\ pc[q] = "done" /\ path[q] = "migrate"
        /\ pc[p] = "done" /\ path[p] = "hash"
        /\ phone_number[p] = phone_number[q]
        /\ result[p] = result[q]
        /\ Cardinality(user_sessions) = next_id - 1

\* C5: a get_or_create_session(id) step taken while neither a hashed nor a
\* legacy row exists for id never raises: the lookups go on to the insert,
\* and the insert adds exactly one row, with a fresh id, hash(id), an
\* encrypted identifier and persona "botan", and returns it.
C5_CreatesDefault ==
    [][\A p \in Procs :
        LET phone == phone_number'[p]
            pre == Hashed(user_sessions, phone) = {} /\ Legacy(user_sessions, phone) = {}
        IN  /\ (GocStarts(p) /\ pre) =>
                    pc'[p] = "goc_legacy" /\ user_sessions' = user_sessions
            /\ (Runs(p, "goc_legacy") /\ pre) =>
                    pc'[p] = "goc_insert" /\ user_sessions' = user_sessions
            /\ (Runs(p, "goc_insert") /\ pre) =>
                    /\ pc'[p] = "done"
                    /\ result'[p] \notin {r.id : r \in user_sessions}
                    /\ \E new \in user_sessions' :
                           /\ new.id = result'[p]
                           /\ user_sessions' = user_sessions \cup {new}
                           /\ new.phone_hash = hash_phone_number(phone)
                           /\ is_encrypted(new.phone_number)
                           /\ new.phone_number \in {encrypt(phone, iv) : iv \in IVs}
                           /\ new.current_character = "botan"
      ]_vars

\* A call has created the session of a new identifier.
C5_Witness ==
    \E p \in Procs :
        /\ pc[p] = "done" /\ path[p] = "create"
        /\ \E r \in user_sessions :
               r.id = result[p] /\ r.current_character = "botan"

\* C6: an update_character(id, persona) step taken while id has no session
\* row (none with hash(id), none with the cleartext id) raises nothing,
\* writes nothing and ends the call without a commit.
C6_UpdateAbsentNoOp ==
    [][\A p \in Procs :
        LET phone == phone_number'[p]
            pre == Hashed(user_sessions, phone) = {} /\ Cleartext(user_sessions, phone) = {}
        IN  /\ (UcStarts(p) /\ pre) =>
                    pc'[p] = "uc_plain" /\ user_sessions' = user_sessions
            /\ (Runs(p, "uc_plain") /\ pre) =>
                    /\ pc'[p] = "done"
                    /\ user_sessions' = user_sessions
                    /\ next_id' = next_id
      ]_vars

\* An update_character call for an identifier without session has ended
\* while the table holds other sessions.
C6_Witness ==
    \E p \in Procs :
        /\ pc[p] = "done" /\ path[p] = "absent"
        /\ user_sessions # {}
        /\ Hashed(user_sessions, phone_number[p]) = {}

(* ======================== claims: topic router ======================== *)
\* The highest score of the map select_character returned.
MaxScore == CHOOSE m \in {scores[c] : c \in Characters} :
                \A c \in Characters : scores[c] <= m

\* The threshold on the scale of the scores (hundredths times word count).
Margin == threshold * WordCount(message)

BeginsWithWord(s, w) == StartsWith(s, w) /\ ~IsWordAt(s, Len(w) + 1)

\* The message addresses persona c at its start: "Name, ...", "name ...",
\* "Hey Name ...", "Hi Name ...".
DirectlyAddressed(msg, c) ==
    LET m == Lower(msg) IN
    \/ BeginsWithWord(m, c)
    \/ BeginsWithWord(m, "hey " \o c)
    \/ BeginsWithWord(m, "hi " \o c)

\* C8: a message that addresses a persona by name at its start makes
\* select_character return that persona, whatever the current persona,
\* the scores and the threshold.
C8_DirectAddressSelects ==
    rpc = "ret" =>
        \A c \in Characters : DirectlyAddressed(message, c) => selected = c

\* str.replace(from, to)
RECURSIVE ReplaceAll(_, _, _)
ReplaceAll(s, from, to) ==
    IF Len(s) < Len(from) THEN s
    ELSE IF StartsWith(s, from)
         THEN to \o ReplaceAll(SubSeq(s, Len(from) + 1, Len(s)), from, to)
         ELSE Char(s, 1) \o ReplaceAll(SubSeq(s, 2, Len(s)), from, to)

\* The message with every persona name replaced by a word of the same
\* length that is no name and no keyword.
Unnamed(msg) ==
    ReplaceAll(ReplaceAll(ReplaceAll(Lower(msg), "botan", "xxxxx"),
                          "kasho", "xxxxx"), "yuri", "xxxx")

\* The message names a persona, and not as a direct address at its start.
MentionsOnly(msg) ==
    LET m == Lower(msg) IN
    /\ \E c \in Characters : Contains(m, c)
    /\ \A c \in Characters :
           ~(BeginsWithWord(m, c) \/ BeginsWithWord(m, "hey " \o c)
                                  \/ BeginsWithWord(m, "hi " \o c))

\* C9: for a message that only mentions a persona's name, select_character
\* returns the score-and-threshold decision (the current persona unless
\* the best score exceeds its score by more than the threshold, then the
\* first best-scoring persona), and the name adds nothing to any score.
C9_MentionIsScored ==
    (rpc = "ret" /\ MentionsOnly(message)) =>
        /\ selected =
               IF MaxScore > scores[current_character] + Margin
               THEN CHOOSE c \in Characters :
                        /\ scores[c] = MaxScore
                        /\ \A d \in Characters :
                               scores[d] = MaxScore =>
                                   (d = c \/ (c = "botan") \/ (c = "kasho" /\ d = "yuri"))
               ELSE current_character
        /\ scores = analyze(Unnamed(message))

\* A message mentions a persona other than the current one, which scored
\* nothing, and another persona was selected on its score.
C9_Witness ==
    /\ rpc = "ret"
    /\ MentionsOnly(message)
    /\ Contains(Lower(message), "botan")
    /\ current_character = "yuri"
    /\ selected = "kasho"

\* Some persona's keyword occurs in the message, as a word or inside one.
SomeKeywordIn(msg) ==
    \E c \in Characters :
        \E k \in 1..Len(KeywordsOf(c)) : Contains(Lower(msg), KeywordsOf(c)[k])

\* Some persona's keyword matches in the message as whole words.
SomeKeywordMatches(msg) ==
    LET m == Lower(msg) IN
    \E i \in 1..Len(m) :
        /\ Boundary(m, i)
        /\ \E c \in Characters :
               \E k \in 1..Len(KeywordsOf(c)) : KeywordAt(m, i, KeywordsOf(c)[k])

\* The message holds one of the indicators the bonuses look for.
SomeBonusIndicator(msg) ==
    LET m == Lower(msg) IN
    \/ \E w \in {"vtuber", "streaming", "viral", "trending",
                 "music", "advice", "help me", "what should i",
                 "book", "philosophy", "why", "meaning"} : Contains(m, w)
    \/ /\ StartsWith(m, "how")
       /\ \E w \in {"should", "can i", "do i"} : Contains(m, w)

AllZero == \A c \in Characters : scores[c] = 0

Completes(p) == pc[p] # "done" /\ pc'[p] = "done"

\* Caller p commits the INSERT of add_message in this step.
Appends(p) == pc[p] = "am_commit" /\ Completes(p)

\* This step is the deletion of clear_old_history or of delete_user_data.
Deleting == \E p \in Procs : Completes(p) /\ path'[p] \in {"clear", "erase"}

HistoryIds(rows) == {r.id : r \in rows}

\* C11: the conversation log is append-only. The commit of add_message
\* adds exactly one row, under an id no row had, and no other step adds a
\* row; every existing row stays as it is, field by field, in every step
\* of every store operation, unless the step is a deletion (pruning or
\* erasure), which removes rows whole.
C11_AppendOnly ==
    [][ /\ \A r \in conversation_history :
               \/ r \in conversation_history'
               \/ Deleting /\ r.id \notin HistoryIds(conversation_history')
        /\ (\E p \in Procs : Appends(p)) =>
               \E new \in conversation_history' :
                   /\ new.id \notin HistoryIds(conversation_history)
                   /\ conversation_history' = conversation_history \cup {new}
        /\ ~(\E p \in Procs : Appends(p)) =>
               conversation_history' \subseteq conversation_history
      ]_vars

\* add_message has committed its row into a log that held earlier rows.
C11_Witness ==
    \E p \in Procs :
        /\ pc[p] = "done"
        /\ path[p] = "add"
        /\ result[p] \in HistoryIds(conversation_history)
        /\ \E r \in conversation_history : r.id < result[p]

\* The roles of a conversation turn.
TurnRoles == {"user", "assistant"}

\* C12: add_message rejects a role other than "user" and "assistant":
\* no row of conversation_history has another role, and a caller whose
\* add_message was given another role has stored no row.
C12_RoleRejected ==
    /\ \A r \in conversation_history : r.role \in TurnRoles
    /\ \A p \in Procs :
           (pc[p] = "done" /\ path[p] = "add" /\ role[p] \notin TurnRoles) =>
               result[p] = NoRow

\* The rows get_conversation_history reads for an identifier and a
\* persona filter: those under the identifier's hash or, when there is
\* none, the legacy rows under the cleartext identifier.
TurnsOf(rows, id, persona) ==
    LET wanted(r) == persona # NoCharacter => r.character = persona
        hashed == {r \in rows : r.phone_hash = hash_phone_number(id) /\ wanted(r)}
    IN  IF hashed # {} THEN hashed
        ELSE {r \in rows : r.phone_hash = NULL /\ r.phone_number = id /\ wanted(r)}

\* Caller p returns from get_conversation_history in this step.
Reads(p) == Completes(p) /\ path'[p] \in {"gh_hash", "gh_legacy"}

Smaller(a, b) == IF a < b THEN a ELSE b

\* Every row stored for an identifier and a persona filter, under the
\* hash or as a legacy row.
StoredFor(rows, id, persona) ==
    {r \in rows :
        /\ persona # NoCharacter => r.character = persona
        /\ \/ r.phone_hash = hash_phone_number(id)
           \/ r.phone_hash = NULL /\ r.phone_number = id}

\* No row of the identifier was committed between the two queries of the
\* read of caller p: the first query answered, or its answer still stands.
Undisturbed(p) ==
    \/ path'[p] = "gh_hash"
    \/ limit'[p] = 0
    \/ HistoryByHash(conversation_history, hash_phone_number(phone_number'[p]),
                     character'[p]) = {}

\* C13: get_conversation_history(id, persona, limit = N) returns at most
\* N turns, oldest first (timestamps never decrease along the list), all
\* of them rows of the identifier (and persona, if given); and, for a
\* read no write came between, they are the N newest of these rows: as
\* many as there are, up to N, none of them older than a row left out.
C13_NewestInOrder ==
    [][ \A p \in Procs : Reads(p) =>
          LET got == messages'[p]
              all == TurnsOf(conversation_history, phone_number'[p], character'[p])
          IN  /\ Len(returned'[p]) = Len(got)
              /\ Len(got) <= limit'[p]
              /\ \A i, j \in 1..Len(got) :
                     i < j => got[i].timestamp <= got[j].timestamp
              /\ \A i \in 1..Len(got) : returned'[p][i].role = got[i].role
              /\ Cardinality(Range(got)) = Len(got)
              /\ Range(got) \subseteq
                     StoredFor(conversation_history, phone_number'[p], character'[p])
              /\ Undisturbed(p) =>
                     /\ Range(got) \subseteq all
                     /\ Len(got) = Smaller(limit'[p], Cardinality(all))
                     /\ \A out \in all \ Range(got) :
                            \A in \in Range(got) : out.timestamp <= in.timestamp
      ]_vars

\* A read returned two turns of different times and left an older row of
\* the identifier out.
C13_Witness ==
    \E p \in Procs :
        /\ pc[p] = "done"
        /\ path[p] = "gh_hash"
        /\ Len(messages[p]) = 2
        /\ limit[p] = 2
        /\ messages[p][1].timestamp < messages[p][2].timestamp
        /\ \E r \in TurnsOf(conversation_history, phone_number[p], character[p]) :
               /\ r \notin Range(messages[p])
               /\ r.timestamp <= messages[p][1].timestamp

\* C14: every turn get_conversation_history returns carries the original
\* cleartext. A row the store wrote comes back as the text whose
\* encryption it holds, which for a row an add_message call of this
\* behaviour wrote is that call's content argument; a legacy row, stored
\* as plaintext, comes back as stored.
C14_CleartextReturned ==
    [][ \A p \in Procs : Reads(p) =>
          \A i \in 1..Len(messages'[p]) :
              LET row == messages'[p][i]
                  text == returned'[p][i].content
              IN  /\ row.phone_hash = NULL => text = row.content
                  /\ row.phone_hash # NULL =>
                         \E iv \in IVs : encrypt(text, iv) = row.content
                  /\ \A q \in Procs :
                         (pc[q] = "done" /\ path[q] = "add" /\ result[q] = row.id)
                             => text = content[q]
      ]_vars

\* A caller appended a text that begins like a token and a read returned
\* the row of that call, next to an older row.
C14_Witness ==
    \E p, q \in Procs :
        /\ pc[q] = "done" /\ path[q] = "add" /\ content[q] = "gAAAAAhi"
        /\ pc[p] = "done" /\ path[p] = "gh_hash"
        /\ Len(messages[p]) = 2
        /\ messages[p][2].id = result[q]
        /\ is_encrypted(messages[p][2].content)
        /\ returned[p][2].content = "gAAAAAhi"

\* Caller p returns from clear_old_history in this step.
Prunes(p) == Completes(p) /\ path'[p] = "clear"

\* C15: clear_old_history(days) deletes exactly the rows whose timestamp
\* is older than now minus days: every such row is gone, every other row
\* is still there as it was, no user_sessions row is touched and the
\* call returns the number of rows it deleted.
C15_PrunesExactlyOld ==
    [][ \A p \in Procs : Prunes(p) =>
          /\ conversation_history' =
                 {r \in conversation_history : r.timestamp >= now - days'[p]}
          /\ user_sessions' = user_sessions
          /\ deleted'[p] = Cardinality(conversation_history)
                               - Cardinality(conversation_history')
      ]_vars

\* A pruning deleted two rows and kept one that is exactly as old as the
\* cutoff, with a session row in the database.
C15_Witness ==
    \E p \in Procs :
        /\ pc[p] = "done"
        /\ path[p] = "clear"
        /\ deleted[p] = 2
        /\ \E r \in conversation_history : r.timestamp = now - days[p]
        /\ user_sessions # {}

\* Caller p returns from delete_user_data in this step.
Erases(p) == Completes(p) /\ path'[p] = "erase"

\* C16: when delete_user_data(id) has completed, no user_sessions row and
\* no conversation_history row under hash(id) remains.
C16_ErasureRemovesAll ==
    [][ \A p \in Procs : Erases(p) =>
          /\ \A r \in user_sessions' :
                 r.phone_hash # hash_phone_number(phone_number'[p])
          /\ \A r \in conversation_history' :
                 r.phone_hash # hash_phone_number(phone_number'[p])
      ]_vars

SessionIds(rows) == {r.id : r \in rows}

\* C17: no step of get_or_create_session (get_current_character is this
\* call), update_character, add_message, get_conversation_history or
\* clear_old_history removes a user_sessions row: every row is still
\* there, under its id, after the step. (Only the erasure removes rows.)
C17_SessionsOnlyGrow ==
    [][ (~\E p \in Procs : Erases(p)) =>
            SessionIds(user_sessions) \subseteq SessionIds(user_sessions')
      ]_vars

\* With two session rows in the database a pruning has deleted
\* conversation rows and a session call has rewritten a session row.
C17_Witness ==
    \E p, q \in Procs :
        /\ pc[p] = "done" /\ path[p] = "clear" /\ deleted[p] > 0
        /\ pc[q] = "done" /\ path[q] = "migrate"
        /\ Cardinality(user_sessions) = 2

\* C19: under any interleaving of concurrent add_message calls every
\* call adds one row of its own: the commit of a call adds exactly one
\* row, under an id no row has, carrying that call's identifier hash,
\* persona, role and (encrypted) content, whatever other calls are in
\* flight, and leaves their arguments alone; no two calls end up with the
\* same row.
C19_OneRowPerCall ==
    [][ /\ \A p \in Procs : Appends(p) =>
              \E new \in conversation_history' :
                  /\ new.id \notin HistoryIds(conversation_history)
                  /\ conversation_history' = conversation_history \cup {new}
                  /\ result'[p] = new.id
                  /\ new.phone_hash = hash_phone_number(phone_number[p])
                  /\ new.character = character[p]
                  /\ new.role = role[p]
                  /\ \E iv \in IVs : new.content = encrypt(content[p], iv)
                  /\ \A q \in Procs \ {p} :
                         /\ pc'[q] = pc[q]
                         /\ <<phone_number'[q], character'[q], role'[q], content'[q]>>
                                = <<phone_number[q], character[q], role[q], content[q]>>
        /\ \A p, q \in Procs :
               (/\ p # q
                /\ pc[p] = "done" /\ path[p] = "add"
                /\ pc[q] = "done" /\ path[q] = "add") => result[p] # result[q]
      ]_vars

\* Two calls with the same arguments overlapped (the caller that started
\* second committed first) and each has its row.
C19_Witness ==
    /\ turns = 2
    /\ pc[1] = "done" /\ path[1] = "add"
    /\ pc[2] = "done" /\ path[2] = "add"
    /\ <<phone_number[1], character[1], role[1], content[1]>>
           = <<phone_number[2], character[2], role[2], content[2]>>
    /\ result[2] < result[1]
    /\ {result[1], result[2]} \subseteq HistoryIds(conversation_history)

\* The identifier hash of a row: its phone_hash or, for a legacy row, the
\* hash of the cleartext identifier it holds.
IdentifierHash(r) ==
    IF r.phone_hash # NULL THEN r.phone_hash ELSE hash_phone_number(r.phone_number)

\* The rows of identifiers other than id.
RowsOfOthers(rows, id) ==
    {r \in rows : IdentifierHash(r) # hash_phone_number(id)}

\* Caller p takes a step of get_or_create_session, update_character,
\* add_message or get_conversation_history.
StepsForIdentifier(p) ==
    /\ pc'[p] # pc[p]
    /\ pc[p] \notin {"done", "error", "dud_sessions"}
    /\ pc'[p] # "dud_sessions"
    /\ ~(pc[p] = "idle" /\ path'[p] = "clear")

\* C20: operations for different identifiers are independent. A step of
\* get_or_create_session, update_character, add_message or
\* get_conversation_history for identifier A leaves the session rows and
\* the conversation rows of every other identifier as they are (none
\* changed, removed or added), in any interleaving.
C20_OthersUntouched ==
    [][ \A p \in Procs : StepsForIdentifier(p) =>
          /\ RowsOfOthers(user_sessions', phone_number'[p])
                 = RowsOfOthers(user_sessions, phone_number'[p])
          /\ RowsOfOthers(conversation_history', phone_number'[p])
                 = RowsOfOthers(conversation_history, phone_number'[p])
      ]_vars

\* A legacy session was migrated for one identifier and a turn appended
\* for another, with the other identifier's session row in the table.
C20_Witness ==
    \E p, q \in Procs :
        /\ pc[p] = "done" /\ path[p] = "migrate"
        /\ pc[q] = "done" /\ path[q] = "add"
        /\ hash_phone_number(phone_number[p]) # hash_phone_number(phone_number[q])
        /\ RowsOfOthers(user_sessions, phone_number[p]) # {}
        /\ RowsOfOthers(conversation_history, phone_number[q]) # {}

(* ========================= claims: hashing ============================ *)
\* The identifier without surrounding whitespace, spaces, hyphens and the
\* leading "+".
Canonical(id) ==
    LET bare == RemoveChar(RemoveChar(Strip(id), " "), "-")
    IN  IF StartsWith(bare, "+") THEN SubSeq(bare, 2, Len(bare)) ELSE bare

\* C18: hash_phone_number is deterministic and normalizing: each
\* identifier has one hash, and two identifiers that differ only in
\* surrounding whitespace, spaces, hyphens or the leading "+" have the
\* same hash.
C18_HashNormalizes ==
    hpc = "ret" =>
        /\ \A i \in 1..2 : digest[i] = hash_phone_number(spelling[i])
        /\ Canonical(spelling[1]) = Canonical(spelling[2]) => digest[1] = digest[2]

(* ============ ConversationEncryption on texts and stored values ======= *)
\* The texts given to encrypt: a text, the empty text, whitespace, texts
\* that begin like a token of either encoding.
Texts == {"hi", "h", "", " ", "gAAAAAhi", "Z0FBQUFBhi", "gAAAAA", "hi gAAAAA"}

\* A token written by a process that holds another key.
OtherKey == "X"

\* Values found in the store that this process's encrypt did not write,
\* with their origin: original written before encryption existed; a token
\* in the double encoding, made under the key or under another key; a
\* token of another key; a token cut short; a value in another format.
StoredValues ==
    {<<"plaintext", "hi">>, <<"plaintext", "">>, <<"plaintext", "gAAAAAhi">>,
     <<"plaintext", "Z0FBQUFBhi">>, <<"plaintext", "Z0FBQUFB">>,
     <<"double", LegacyPrefix \o Reversed(FernetKey \o "1" \o "hi")>>,
     <<"double other key", LegacyPrefix \o Reversed(OtherKey \o "1" \o "hi")>>,
     <<"other key", FernetEncrypt(OtherKey, "0", "hi")>>,
     <<"malformed", FernetPrefix \o FernetKey>>,
     <<"malformed", FernetPrefix>>,
     <<"unrecognized", "enc:v2:hi">>}

\* encrypt(plaintext)
Encrypt ==
    /\ cpc = "encrypt"
    /\ \E iv \in IVs : cipher' = encrypt(original, iv)
    /\ cpc' = "decrypt"
    /\ UNCHANGED <<original, stored_value, opened, looks_encrypted, served>>
    /\ UNCHANGED <<storeVars, routerVars, historyTableVars, historyCallVars,
                   hashVars, recordVars, webhookVars, simpleVars>>

\* decrypt and is_encrypted applied to what encrypt returned and to the
\* stored value.
Decrypt ==
    /\ cpc = "decrypt"
    /\ opened' = <<decrypt(cipher), decrypt(stored_value[2])>>
    /\ looks_encrypted' = <<is_encrypted(cipher), is_encrypted(stored_value[2])>>
    /\ cpc' = "read"
    /\ UNCHANGED <<original, cipher, stored_value, served>>
    /\ UNCHANGED <<storeVars, routerVars, historyTableVars, historyCallVars,
                   hashVars, recordVars, webhookVars, simpleVars>>

\* The loop of get_conversation_history over two rows, one holding what
\* encrypt returned and one holding the stored value.
ReadRows ==
    /\ cpc = "read"
    /\ served' = Decrypted(<<[role |-> "user", content |-> cipher],
                             [role |-> "assistant", content |-> stored_value[2]]>>)
    /\ cpc' = "ret"
    /\ UNCHANGED <<original, cipher, stored_value, opened, looks_encrypted>>
    /\ UNCHANGED <<storeVars, routerVars, historyTableVars, historyCallVars,
                   hashVars, recordVars, webhookVars, simpleVars>>

InitCipher ==
    /\ StoreIdle
    /\ HistoryIdle
    /\ RouterIdle
    /\ HashIdle
    /\ RecordIdle
    /\ WebhookIdle
    /\ SimpleIdle
    /\ original \in Texts
    /\ cipher = ""
    /\ stored_value \in StoredValues
    /\ opened = <<"", "">>
    /\ looks_encrypted = <<FALSE, FALSE>>
    /\ served = <<>>
    /\ cpc = "encrypt"

NextCipher ==
    \/ Encrypt
    \/ Decrypt
    \/ ReadRows

SpecCipher == InitCipher /\ [][NextCipher]_vars

(* ========================= claims: the cipher ========================= *)
\* C22: decrypt(encrypt(x)) = x for every non-empty text x, both calls
\* under the same key.
C22_RoundTrip ==
    (cpc \in {"read", "ret"} /\ original # "") => opened[1] = original

\* A text that begins like a token was encrypted, and decrypt gave it back.
C22_Witness ==
    /\ cpc = "ret"
    /\ original = "gAAAAAhi"
    /\ cipher # original
    /\ opened[1] = original

\* The origins of a stored value that decrypt cannot open.
Unreadable == {"plaintext", "double other key", "other key", "malformed",
               "unrecognized"}

\* C23: decrypt does not raise. For a malformed value, a token of another
\* key and a value in an unrecognized format it returns its input
\* unchanged, and a read of a row it can open and a row it cannot returns
\* both rows, the first in cleartext and the second as stored.
C23_DecryptNeverRaises ==
    /\ cpc \in {"read", "ret"} =>
           /\ opened[1] # InvalidToken
           /\ opened[2] # InvalidToken
           /\ stored_value[1] \in Unreadable => opened[2] = stored_value[2]
    /\ cpc = "ret" =>
           /\ Len(served) = 2
           /\ served[1] = [role |-> "user", content |-> original]
           /\ stored_value[1] \in Unreadable =>
                  served[2] = [role |-> "assistant", content |-> stored_value[2]]

\* A read returned a turn in cleartext next to a token of another key.
C23_Witness ==
    /\ cpc = "ret"
    /\ original = "hi"
    /\ stored_value[1] = "other key"
    /\ looks_encrypted = <<TRUE, TRUE>>
    /\ served[1].content = "hi"
    /\ served[2].content = stored_value[2]

RecognizedPrefixes == {FernetPrefix, LegacyPrefix}

\* C24 as claimed: is_encrypted(encrypt(x)) is true for every non-empty x
\* and is_encrypted(v) is false for every legacy original value v.
C24_PlaintextNeverEncrypted ==
    cpc \in {"read", "ret"} =>
        /\ original # "" => looks_encrypted[1]
        /\ stored_value[1] = "plaintext" => ~looks_encrypted[2]

\* C24 as amended: is_encrypted(encrypt(x)) is true for every non-empty x,
\* and is_encrypted(v) is false for every legacy original value v that
\* does not begin with one of the two prefixes; a original that begins
\* with one of them is taken for cipher.
C24_PlaintextByPrefix ==
    cpc \in {"read", "ret"} =>
        /\ original # "" => looks_encrypted[1]
        /\ stored_value[1] = "plaintext" =>
               (looks_encrypted[2] <=>
                    \E prefix \in RecognizedPrefixes :
                        StartsWith(stored_value[2], prefix))

\* A token of encrypt was recognised and a legacy original was not.
C24_Witness ==
    /\ cpc = "ret"
    /\ original = "hi"
    /\ looks_encrypted[1]
    /\ stored_value = <<"plaintext", "hi">>
    /\ ~looks_encrypted[2]

(* ======================== EncryptedFieldManager ======================= *)
\* Python values of a record's fields: None, a str, an int (its decimal
\* digits), a list of str.
None == [kind |-> "none", val |-> ""]
StrValue(s) == [kind |-> "str", val |-> s]
IntValue(digits) == [kind |-> "int", val |-> digits]
ListValue(items) == [kind |-> "list", val |-> items]

\* str(value)
str(value) == value.val

Quote == "\""

\* ', '.join of the JSON strings of a list
RECURSIVE JsonJoin(_)
JsonJoin(items) ==
    IF Len(items) = 0 THEN ""
    ELSE IF Len(items) = 1 THEN Quote \o items[1] \o Quote
    ELSE Quote \o items[1] \o Quote \o ", " \o JsonJoin(Tail(items))

\* json.dumps(data, ensure_ascii=False), for strings without quotes or
\* backslashes, integers and lists of such strings
JsonDumps(data) ==
    IF data.kind = "str" THEN Quote \o data.val \o Quote
    ELSE IF data.kind = "int" THEN data.val
    ELSE "[" \o JsonJoin(data.val) \o "]"

IsQuoted(s) ==
    /\ Len(s) >= 2
    /\ Char(s, 1) = Quote
    /\ Char(s, Len(s)) = Quote
    /\ \A i \in 2..(Len(s) - 1) : Char(s, i) # Quote

IsNumber(s) ==
    /\ Len(s) >= 1
    /\ \A i \in 1..Len(s) : Char(s, i) \in CharsOf(Digits)
    /\ Len(s) > 1 => Char(s, 1) # "0"

\* The elements of a JSON array's inside, split at the commas; whitespace
\* around an element is skipped.
RECURSIVE JsonElements(_, _)
JsonElements(s, from) ==
    IF from > Len(s) THEN <<>>
    ELSE LET ends == {i \in from..Len(s) : Char(s, i) = ","}
             stop == IF ends = {} THEN Len(s) + 1
                     ELSE CHOOSE i \in ends : \A j \in ends : i <= j
         IN  <<Strip(SubSeq(s, from, stop - 1))>> \o
             (IF stop > Len(s) THEN <<>> ELSE JsonElements(s, stop + 1))

JSONDecodeError == [kind |-> "error", val |-> ""]

\* json.loads(s), for the same values
JsonLoads(s) ==
    LET text == Strip(s) IN
    IF IsQuoted(text) THEN StrValue(SubSeq(text, 2, Len(text) - 1))
    ELSE IF IsNumber(text) THEN IntValue(text)
    ELSE IF Len(text) >= 2 /\ Char(text, 1) = "[" /\ Char(text, Len(text)) = "]"
    THEN LET inside == Strip(SubSeq(text, 2, Len(text) - 1))
             elements == JsonElements(inside, 1)
         IN  IF inside = "" THEN ListValue(<<>>)
             ELSE IF \A i \in 1..Len(elements) : IsQuoted(elements[i])
             THEN ListValue([i \in 1..Len(elements) |->
                           SubSeq(elements[i], 2, Len(elements[i]) - 1)])
             ELSE JSONDecodeError
    ELSE JSONDecodeError

decrypt_if_needed(text) ==
    IF ~is_encrypted(text) THEN text ELSE decrypt(text)

\* encrypt_json: json.dumps, then encrypt
encrypt_json(data, iv) ==
    IF data = None THEN None
    ELSE StrValue(encrypt(JsonDumps(data), iv))

\* decrypt_json: a value that did not decrypt is parsed as it is, and a
\* text that does not parse is returned as text.
decrypt_json(value) ==
    IF value = None \/ value.val = "" THEN None
    ELSE LET decrypted == decrypt_if_needed(value.val) IN
         IF decrypted = value.val
         THEN IF JsonLoads(value.val) = JSONDecodeError
              THEN value ELSE JsonLoads(value.val)
         ELSE IF JsonLoads(decrypted) = JSONDecodeError
              THEN StrValue(decrypted) ELSE JsonLoads(decrypted)

SENSITIVE_FIELDS ==
    [conversation_history |-> [phone_number |-> "phone", content |-> "text"],
     user_sessions |-> [phone_number |-> "phone"],
     user_consents |-> [phone_number |-> "phone"],
     user_memories |-> [phone_number |-> "phone", profile |-> "text",
                        preferences |-> "json", facts |-> "json",
                        topics_discussed |-> "json",
                        personality_notes |-> "text"]]

encrypt_field(value, field_type, iv) ==
    IF value = None THEN None
    ELSE IF field_type = "text" THEN StrValue(encrypt(str(value), iv))
    ELSE IF field_type = "json" THEN encrypt_json(value, iv)
    ELSE IF field_type = "phone" THEN StrValue(encrypt(value.val, iv))
    ELSE value

decrypt_field(value, field_type) ==
    IF value = None THEN None
    ELSE IF field_type = "text" THEN StrValue(decrypt_if_needed(str(value)))
    ELSE IF field_type = "json" THEN decrypt_json(value)
    ELSE IF field_type = "phone" THEN StrValue(decrypt_if_needed(value.val))
    ELSE value

\* A record without one of its fields: dict.pop(field, None)
Without(record, field) == [f \in DOMAIN record \ {field} |-> record[f]]

\* encrypt_record. The fields of the policy are encrypted one by one, each
\* with its own IV; the hash is attached when the identifier is handled.
encrypt_record(table, record, ivs) ==
    IF table \notin DOMAIN SENSITIVE_FIELDS THEN record
    ELSE LET field_types == SENSITIVE_FIELDS[table]
             handled(f) == /\ f \in DOMAIN field_types
                           /\ f \in DOMAIN record
                           /\ record[f] # None
             hashed == handled("phone_number") /\ field_types["phone_number"] = "phone"
             encrypted == [f \in DOMAIN record |->
                              IF handled(f)
                              THEN encrypt_field(record[f], field_types[f], ivs[f])
                              ELSE record[f]]
         IN  IF hashed
             THEN [f \in DOMAIN record \cup {"phone_hash"} |->
                      IF f = "phone_hash"
                      THEN StrValue(hash_phone_number(record["phone_number"].val))
                      ELSE encrypted[f]]
             ELSE encrypted

\* A faulty variant of decrypt_record: the hash is left in the output.
decrypt_record_keeping_hash(table, record) ==
    IF table \notin DOMAIN SENSITIVE_FIELDS THEN record
    ELSE LET field_types == SENSITIVE_FIELDS[table] IN
         [f \in DOMAIN record |->
             IF f \in DOMAIN field_types /\ record[f] # None
             THEN decrypt_field(record[f], field_types[f])
             ELSE record[f]]

\* decrypt_record
decrypt_record(table, record) ==
    IF table \notin DOMAIN SENSITIVE_FIELDS THEN record
    ELSE LET field_types == SENSITIVE_FIELDS[table]
             decrypted == [f \in DOMAIN record |->
                              IF f \in DOMAIN field_types /\ record[f] # None
                              THEN decrypt_field(record[f], field_types[f])
                              ELSE record[f]]
         IN  Without(decrypted, "phone_hash")

\* The tables of the model: the four of the policy and one without a
\* policy.
Tables == DOMAIN SENSITIVE_FIELDS \cup {"verified_knowledge"}

\* The records of the model: each field absent or holding one of a few
\* values; `character` is in no policy, `phone_hash` is the field
\* encrypt_record attaches.
FieldValues ==
    [phone_number |-> {None, StrValue(""), StrValue("+1555"), StrValue("+1 55-5")},
     content |-> {None, StrValue("hi"), StrValue(""), StrValue("gAAAAAhi"), IntValue("5")},
     preferences |-> {ListValue(<<>>), ListValue(<<"a", "b">>), StrValue("a"),
                      StrValue(""), IntValue("0")},
     character |-> {StrValue("botan")},
     phone_hash |-> {StrValue("0f")}]

Records ==
    UNION {[fields -> UNION {FieldValues[f] : f \in fields}] :
           fields \in SUBSET DOMAIN FieldValues}

EncryptRecord ==
    /\ recpc = "encrypt_record"
    /\ \E ivs \in [DOMAIN rec_given -> IVs] :
           rec_encrypted' = encrypt_record(rec_table, rec_given, ivs)
    /\ recpc' = "decrypt_record"
    /\ UNCHANGED <<rec_table, rec_given, rec_decrypted>>
    /\ UNCHANGED <<storeVars, routerVars, historyTableVars, historyCallVars,
                   hashVars, cipherVars, webhookVars, simpleVars>>

DecryptRecord ==
    /\ recpc = "decrypt_record"
    /\ rec_decrypted' = decrypt_record(rec_table, rec_encrypted)
    /\ recpc' = "ret"
    /\ UNCHANGED <<rec_table, rec_given, rec_encrypted>>
    /\ UNCHANGED <<storeVars, routerVars, historyTableVars, historyCallVars,
                   hashVars, cipherVars, webhookVars, simpleVars>>

InitRecord ==
    /\ StoreIdle
    /\ HistoryIdle
    /\ RouterIdle
    /\ HashIdle
    /\ CipherIdle
    /\ WebhookIdle
    /\ SimpleIdle
    /\ rec_table \in Tables
    /\ rec_given \in {r \in Records : \A f \in DOMAIN r : r[f] \in FieldValues[f]}
    /\ rec_encrypted = <<>>
    /\ rec_decrypted = <<>>
    /\ recpc = "encrypt_record"

NextRecord ==
    \/ EncryptRecord
    \/ DecryptRecord

SpecRecord == InitRecord /\ [][NextRecord]_vars

(* ========================= claims: records ============================ *)
\* C25 as claimed: decrypt_record(table, encrypt_record(table, r))
\* returns r, for every record r.
C25_RecordRoundTrip ==
    recpc = "ret" => rec_decrypted = rec_given

\* The policy of a table; no field for a table without one.
PolicyOf(table) ==
    IF table \in DOMAIN SENSITIVE_FIELDS THEN SENSITIVE_FIELDS[table] ELSE <<>>

\* Field f is of kind text in the policy of the table.
TextField(table, f) ==
    f \in DOMAIN PolicyOf(table) /\ PolicyOf(table)[f] = "text"

\* A record as a caller builds it for storing: no phone_hash field of its
\* own, and strings (or None) in the fields of kind text.
ForStoring(table, r) ==
    /\ "phone_hash" \notin DOMAIN r
    /\ \A f \in DOMAIN r : TextField(table, f) => r[f].kind \in {"str", "none"}

\* C25 as amended: decrypt_record(table, encrypt_record(table, r))
\* returns r for every record r that has no phone_hash field of its own
\* and holds strings (or None) in its fields of kind text, and for every
\* record of a table without a policy. For a table with a policy
\* encrypt_record attaches the hash of the identifier as phone_hash and
\* every field of the policy that holds a value (other than None and, for
\* the kinds text and identifier, the empty string) is stored as a token; decrypt_record returns no phone_hash field (not the attached
\* one, and not one r had), a value of a field of kind text as its string,
\* and every other field as it was.
C25_StoredRecordRoundTrip ==
    /\ recpc \in {"decrypt_record", "ret"} /\ rec_table \in DOMAIN SENSITIVE_FIELDS =>
           /\ \A f \in DOMAIN rec_given :
                  IF /\ f \in DOMAIN PolicyOf(rec_table)
                     /\ rec_given[f] # None
                     /\ PolicyOf(rec_table)[f] = "json" \/ rec_given[f] # StrValue("")
                  THEN is_encrypted(rec_encrypted[f].val) /\ rec_encrypted[f] # rec_given[f]
                  ELSE f # "phone_hash" => rec_encrypted[f] = rec_given[f]
           /\ ("phone_number" \in DOMAIN rec_given /\ rec_given["phone_number"] # None) =>
                  /\ "phone_hash" \in DOMAIN rec_encrypted
                  /\ rec_encrypted["phone_hash"] =
                         StrValue(hash_phone_number(rec_given["phone_number"].val))
    /\ recpc = "ret" =>
           /\ rec_table \notin DOMAIN SENSITIVE_FIELDS => rec_decrypted = rec_given
           /\ ForStoring(rec_table, rec_given) => rec_decrypted = rec_given
           /\ rec_table \in DOMAIN SENSITIVE_FIELDS =>
                  /\ DOMAIN rec_decrypted = DOMAIN rec_given \ {"phone_hash"}
                  /\ \A f \in DOMAIN rec_decrypted :
                         IF TextField(rec_table, f) /\ rec_given[f] # None
                         THEN rec_decrypted[f] = StrValue(str(rec_given[f]))
                         ELSE rec_decrypted[f] = rec_given[f]

\* A conversation row with an identifier, a text that begins like a token
\* and a field outside the policy went through both calls: the hash was
\* attached, both policy fields were stored as tokens, and the record came
\* back as given.
C25_Witness ==
    /\ recpc = "ret"
    /\ rec_table = "conversation_history"
    /\ rec_given = [phone_number |-> StrValue("+1 55-5"),
                    content |-> StrValue("gAAAAAhi"),
                    character |-> StrValue("botan")]
    /\ rec_encrypted["phone_hash"] = StrValue(hash_phone_number("+1555"))
    /\ rec_encrypted["content"] # rec_given["content"]
    /\ rec_decrypted = rec_given

(* =================== claims: the legacy fallback ====================== *)
\* The rows stored under the hash of an identifier, and the legacy rows
\* stored under the identifier in cleartext, for a persona filter.
HashedTurns(rows, id, persona) ==
    {r \in StoredFor(rows, id, persona) : r.phone_hash # NULL}

LegacyTurns(rows, id, persona) ==
    {r \in StoredFor(rows, id, persona) : r.phone_hash = NULL}

\* Caller p runs the hash query of get_conversation_history in this step.
QueriesHash(p) ==
    pc[p] = "idle" /\ (pc'[p] = "gh_legacy" \/ Reads(p))

\* C26: get_conversation_history returns legacy rows if and only if its
\* hash query, persona filter applied, matched no row. The legacy query
\* runs only after a hash query that returned nothing; a read that
\* returns from the hash query returns hashed rows only, a read that
\* returns from the legacy query returns legacy rows only, the newest up
\* to the limit; and a read that starts when a hashed turn matches returns
\* from the hash query, however many legacy turns the identifier has.
C26_LegacyIffNoHashed ==
    [][ \A p \in Procs :
          LET id == phone_number'[p]
              persona == character'[p]
              hashed == HashedTurns(conversation_history, id, persona)
              legacy == LegacyTurns(conversation_history, id, persona)
              got == Range(messages'[p])
          IN  /\ QueriesHash(p) =>
                     IF hashed # {} /\ limit'[p] > 0
                     THEN Reads(p) /\ got # {} /\ got \subseteq hashed
                     ELSE pc'[p] = "gh_legacy"
              /\ (Reads(p) /\ ~QueriesHash(p)) =>
                     /\ pc[p] = "gh_legacy"
                     /\ got \subseteq legacy
                     /\ Len(messages'[p]) = Smaller(limit'[p], Cardinality(legacy))
      ]_vars

\* A read returned the hashed turn of an identifier that has legacy turns
\* too, and none of the legacy turns.
C26_Witness ==
    \E p \in Procs :
        /\ pc[p] = "done"
        /\ path[p] = "gh_hash"
        /\ Len(messages[p]) = 1
        /\ limit[p] = 2
        /\ messages[p][1].phone_hash # NULL
        /\ LegacyTurns(conversation_history, phone_number[p], character[p]) # {}

(* ================= whatsapp_webhook (whatsapp_webhook/server.py) ====== *)
(* The handler of POST /whatsapp for a message that reaches the chat: the  *)
(* privacy commands and the consent records (lines 138-188) use tables of  *)
(* their own and are left out. Handlers run side by side on one database;  *)
(* a step is one database statement, or one call of a service outside      *)
(* (moderation, the language model).                                       *)

Workers == 1..NumWorkers

\* The From field of the messages received.
Senders == {"whatsapp:+1555", "whatsapp:+1666"}

\* The texts received: a word of Kasho's topics, a word of Botan's.
Bodies == {"song", "stream"}

\* The IV of the session rows the handlers write. Nothing in the handler
\* depends on the IVs: one draw stands for all.
SessionIVs == {"0"}

\* The welcome text (the English one; its policy URL is a constant here).
welcome_message == "Hey! I'm Botan, one of three AI sisters~"

ERROR_MESSAGE == "Oops! Something went wrong on my end."

\* What the language model answers.
response_text == "ok"

\* str.capitalize() of a persona name.
capitalize(name) ==
    CASE name = "botan" -> "Botan"
      [] name = "kasho" -> "Kasho"
      [] name = "yuri" -> "Yuri"
      [] OTHER -> name

\* f"*{selected_character.capitalize()}{emoji}*: {response_text}"
formatted_response(char, text) == "*" \o capitalize(char) \o "*: " \o text

\* What a handler step leaves alone: the arguments and results of direct
\* store calls, the router's, the hash's, the cipher's and the records'
\* state.
handlerFrame == <<character, path, result, calls, turns, historyCallVars,
                  routerVars, hashVars, cipherVars, recordVars, simpleVars>>

\* A handler between receiving its message and building its reply.
Running(q) == pc[q] \notin {"idle", "wh_done"}

\* Handler p, serving identifier `phone`, takes a step: every other
\* running handler of the same identifier has had a message interleave
\* with its own.
Interleaves(p, phone) ==
    disturbed' =
        [q \in Procs |->
            \/ disturbed[q]
            \/ /\ q # p
               /\ Running(q)
               /\ hash_phone_number(phone_number[q]) =
                      hash_phone_number(phone)]

\* The handler's next statement.
Goes(p, label) == pc' = [pc EXCEPT ![p] = label]

\* twiml_response.message(text); return Response(...): the reply is
\* sent and the worker is free for the next message.
Replies(p, text) ==
    /\ twiml_response' = [twiml_response EXCEPT ![p] = Append(@, text)]
    /\ Goes(p, "wh_done")

\* A faulty variant of the comparison: the session is written whatever
\* the router selected.
SwitchedAlways(chosen, current) == TRUE

\* `if selected_character != current_character:`
Switched(chosen, current) == chosen # current

\* Steps 3 and 4 up to the call of update_character: the router selects,
\* the handler compares.
Routes(p, current) ==
    LET chosen == select_character(Body[p], current, ConfigThreshold)[1] IN
    /\ selected_character' = [selected_character EXCEPT ![p] = chosen]
    /\ IF Switched(chosen, current)
       THEN Goes(p, "wh_uc")
       ELSE Goes(p, "wh_generate")

\* A worker process with no message in hand.
Free(p) == pc[p] \in {"idle", "wh_done"}

\* The request arrives at the first free worker:
\* phone_number = From.replace("whatsapp:", ""). Step 1, moderation, lets
\* the text pass (a blocked text is answered at once and touches no
\* table).
WhReceive(p) ==
    \E From \in Senders, text \in Bodies :
        /\ p \in Workers
        /\ Free(p)
        /\ \A q \in Workers : q < p => ~Free(q)
        /\ deliveries < MaxDeliveries
        /\ deliveries' = deliveries + 1
        /\ phone_number' = [phone_number EXCEPT ![p] =
                                ReplaceAll(From, "whatsapp:", "")]
        /\ Body' = [Body EXCEPT ![p] = text]
        /\ Goes(p, "wh_goc")
        /\ session' = [session EXCEPT ![p] = NoRow]
        /\ session_character' = [session_character EXCEPT ![p] = "none"]
        /\ selected_character' = [selected_character EXCEPT ![p] = "none"]
        /\ twiml_response' = [twiml_response EXCEPT ![p] = <<>>]
        /\ appended' = [appended EXCEPT ![p] = <<>>]
        /\ disturbed' =
               [q \in Procs |->
                   /\ q # p
                   /\ \/ disturbed[q]
                      \/ /\ Running(q)
                         /\ hash_phone_number(phone_number[q]) =
                                hash_phone_number(ReplaceAll(From, "whatsapp:", ""))]
        /\ UNCHANGED <<user_sessions, next_id, now,
                       conversation_history, next_message_id>>
        /\ UNCHANGED handlerFrame

\* Step 2, get_or_create_session: the query by phone_hash. A row found is
\* returned as loaded; the handler reads its current_character.
WhGocQueryHash(p) ==
    /\ pc[p] = "wh_goc"
    /\ LET found == ByHash(user_sessions, hash_phone_number(phone_number[p])) IN
       IF found # {}
       THEN \E id \in found :
                /\ session' = [session EXCEPT ![p] = id]
                /\ session_character' = [session_character EXCEPT ![p] =
                       Row(user_sessions, id).current_character]
                /\ Goes(p, "wh_first")
       ELSE /\ UNCHANGED <<session, session_character>>
            /\ Goes(p, "wh_goc_legacy")
    /\ Interleaves(p, phone_number[p])
    /\ UNCHANGED <<user_sessions, next_id, now, phone_number,
                   conversation_history, next_message_id,
                   Body, selected_character, twiml_response, appended,
                   deliveries>>
    /\ UNCHANGED handlerFrame

\* get_or_create_session: the legacy query.
WhGocQueryLegacy(p) ==
    /\ pc[p] = "wh_goc_legacy"
    /\ LET found == ByLegacyPhone(user_sessions, phone_number[p]) IN
       IF found # {}
       THEN \E id \in found :
                /\ session' = [session EXCEPT ![p] = id]
                /\ Goes(p, "wh_goc_migrate")
       ELSE /\ session' = session
            /\ Goes(p, "wh_goc_insert")
    /\ Interleaves(p, phone_number[p])
    /\ UNCHANGED <<user_sessions, next_id, now, phone_number,
                   conversation_history, next_message_id,
                   Body, session_character, selected_character,
                   twiml_response, appended, deliveries>>
    /\ UNCHANGED handlerFrame

\* get_or_create_session: the migration and its commit. The commit expires
\* the instance and the closed session detaches it, with no refresh on
\* this path: reading current_character raises (DetachedInstanceError)
\* and the handler answers ERROR_MESSAGE; where the attribute is still
\* loaded the handler goes on with the row's persona. An UPDATE rejected
\* by the unique index raises as well.
WhGocMigrateCommit(p) ==
    /\ pc[p] = "wh_goc_migrate"
    /\ session[p] \in {r.id : r \in user_sessions}
    /\ \E iv \in SessionIVs, loaded \in BOOLEAN :
        LET old == Row(user_sessions, session[p])
            new == MigratedRow(old, phone_number[p], iv, now + 1)
        IN  IF UniquePhoneHash(user_sessions, old.id, new.phone_hash)
            THEN /\ user_sessions' = (user_sessions \ {old}) \cup {new}
                 /\ now' = now + 1
                 /\ IF loaded
                    THEN /\ session_character' =
                               [session_character EXCEPT ![p] = new.current_character]
                         /\ Goes(p, "wh_first")
                         /\ twiml_response' = twiml_response
                    ELSE /\ session_character' = session_character
                         /\ Replies(p, ERROR_MESSAGE)
            ELSE /\ UNCHANGED <<user_sessions, now, session_character>>
                 /\ loaded
                 /\ Replies(p, ERROR_MESSAGE)
    /\ Interleaves(p, phone_number[p])
    /\ UNCHANGED <<next_id, phone_number, session,
                   conversation_history, next_message_id,
                   Body, selected_character, appended, deliveries>>
    /\ UNCHANGED handlerFrame

\* get_or_create_session: the insert with the default persona, commit,
\* refresh. An INSERT rejected by the unique index raises; the handler
\* answers ERROR_MESSAGE.
WhGocInsertCommit(p) ==
    /\ pc[p] = "wh_goc_insert"
    /\ \E iv \in SessionIVs :
        LET new == NewSession(next_id, phone_number[p], iv, now + 1) IN
        IF UniquePhoneHash(user_sessions, new.id, new.phone_hash)
        THEN /\ user_sessions' = user_sessions \cup {new}
             /\ now' = now + 1
             /\ session' = [session EXCEPT ![p] = new.id]
             /\ session_character' =
                    [session_character EXCEPT ![p] = new.current_character]
             /\ Goes(p, "wh_first")
             /\ twiml_response' = twiml_response
        ELSE /\ UNCHANGED <<user_sessions, now, session, session_character>>
             /\ Replies(p, ERROR_MESSAGE)
    /\ next_id' = next_id + 1
    /\ Interleaves(p, phone_number[p])
    /\ UNCHANGED <<phone_number, conversation_history, next_message_id,
                   Body, selected_character, appended, deliveries>>
    /\ UNCHANGED handlerFrame

\* get_conversation_history(phone_number, limit=1): the query by hash.
\* A row found: the message is not the first one, and the router selects.
WhFirstQueryHash(p) ==
    /\ pc[p] = "wh_first"
    /\ LET found == HistoryByHash(conversation_history,
                                  hash_phone_number(phone_number[p]), NoCharacter)
       IN  IF found # {}
           THEN Routes(p, session_character[p])
           ELSE /\ Goes(p, "wh_first_legacy")
                /\ selected_character' = selected_character
    /\ Interleaves(p, phone_number[p])
    /\ UNCHANGED <<user_sessions, next_id, now, phone_number, session,
                   conversation_history, next_message_id,
                   Body, session_character, twiml_response, appended,
                   deliveries>>
    /\ UNCHANGED handlerFrame

\* get_conversation_history(phone_number, limit=1): the legacy query.
\* `is_first_message = len(history) == 0`; on a first message the welcome
\* text is put in the reply.
WhFirstQueryLegacy(p) ==
    /\ pc[p] = "wh_first_legacy"
    /\ LET found == HistoryByLegacyPhone(conversation_history,
                                         phone_number[p], NoCharacter)
       IN  IF found # {}
           THEN /\ Routes(p, session_character[p])
                /\ twiml_response' = twiml_response
           ELSE /\ Goes(p, "wh_welcome_assistant")
                /\ selected_character' = selected_character
                /\ twiml_response' =
                       [twiml_response EXCEPT ![p] = Append(@, welcome_message)]
    /\ Interleaves(p, phone_number[p])
    /\ UNCHANGED <<user_sessions, next_id, now, phone_number, session,
                   conversation_history, next_message_id,
                   Body, session_character, appended, deliveries>>
    /\ UNCHANGED handlerFrame

\* The IVs of the conversation rows the handlers insert, one draw as
\* for the session rows.
HandlerIVs == {<<"0", "1">>}

\* session_manager.add_message(phone_number, char, r, c) by the handler:
\* one INSERT, committed.
Saves(p, char, r, c) ==
    /\ \E iv \in HandlerIVs :
        LET new == NewMessage(next_message_id, phone_number[p], char, r, c,
                              iv, now + 1)
        IN  /\ conversation_history' = conversation_history \cup {new}
            /\ appended' = [appended EXCEPT ![p] = Append(@, new.id)]
    /\ next_message_id' = next_message_id + 1
    /\ now' = now + 1

\* add_message(character="botan", role="assistant", content=welcome_message)
WhWelcomeAssistant(p) ==
    /\ pc[p] = "wh_welcome_assistant"
    /\ Saves(p, "botan", "assistant", welcome_message)
    /\ Goes(p, "wh_welcome_user")
    /\ Interleaves(p, phone_number[p])
    /\ UNCHANGED <<user_sessions, next_id, phone_number, session,
                   Body, session_character, selected_character,
                   twiml_response, deliveries>>
    /\ UNCHANGED handlerFrame

\* add_message(character="botan", role="user", content=Body); the reply
\* holding the welcome text is returned.
WhWelcomeUser(p) ==
    /\ pc[p] = "wh_welcome_user"
    /\ Saves(p, "botan", "user", Body[p])
    /\ Goes(p, "wh_done")
    /\ Interleaves(p, phone_number[p])
    /\ UNCHANGED <<user_sessions, next_id, phone_number, session,
                   Body, session_character, selected_character,
                   twiml_response, deliveries>>
    /\ UNCHANGED handlerFrame

\* Step 4, update_character: the query by phone_hash, then by
\* phone_number alone; `if session:` is false when neither finds a row.
WhUcQuery(p) ==
    /\ pc[p] = "wh_uc"
    /\ LET byhash == ByHash(user_sessions, hash_phone_number(phone_number[p]))
           found == IF byhash # {} THEN byhash
                    ELSE ByPhone(user_sessions, phone_number[p])
       IN  IF found # {}
           THEN \E id \in found :
                    /\ session' = [session EXCEPT ![p] = id]
                    /\ Goes(p, "wh_uc_commit")
           ELSE /\ session' = session
                /\ Goes(p, "wh_generate")
    /\ Interleaves(p, phone_number[p])
    /\ UNCHANGED <<user_sessions, next_id, now, phone_number,
                   conversation_history, next_message_id,
                   Body, session_character, selected_character,
                   twiml_response, appended, deliveries>>
    /\ UNCHANGED handlerFrame

\* A faulty variant of the update: the persona is stored as it is shown
\* in the reply, capitalised.
UpdatedSessionCapitalized(r, char, at) ==
    [r EXCEPT !.current_character = capitalize(char), !.last_interaction = at]

\* session.current_character = character;
\* session.last_interaction = datetime.utcnow()
UpdatedSession(r, char, at) ==
    [r EXCEPT !.current_character = char, !.last_interaction = at]

\* update_character: the assignment and its commit.
WhUcCommit(p) ==
    /\ pc[p] = "wh_uc_commit"
    /\ session[p] \in {r.id : r \in user_sessions}
    /\ LET old == Row(user_sessions, session[p])
           new == UpdatedSession(old, selected_character[p], now + 1)
       IN  /\ user_sessions' = (user_sessions \ {old}) \cup {new}
           /\ now' = now + 1
    /\ Goes(p, "wh_generate")
    /\ Interleaves(p, phone_number[p])
    /\ UNCHANGED <<next_id, phone_number, session,
                   conversation_history, next_message_id,
                   Body, session_character, selected_character,
                   twiml_response, appended, deliveries>>
    /\ UNCHANGED handlerFrame

\* A faulty variant of the generation: the user turn is stored before the
\* model is asked.
WhGenerateSavingFirst(p) ==
    /\ pc[p] = "wh_generate"
    /\ Saves(p, selected_character[p], "user", Body[p])
    /\ \E answered \in BOOLEAN :
          IF answered
          THEN /\ Goes(p, "wh_save_assistant")
               /\ twiml_response' = twiml_response
          ELSE Replies(p, ERROR_MESSAGE)
    /\ Interleaves(p, phone_number[p])
    /\ UNCHANGED <<user_sessions, next_id, phone_number, session,
                   Body, session_character, selected_character, deliveries>>
    /\ UNCHANGED handlerFrame

\* Steps 5 to 9: the prompt is built from the history of the selected
\* persona (a read) and the model is asked, the failover model after it.
\* An answer, or both fail: the exception reaches the handler's `except`,
\* which answers ERROR_MESSAGE.
WhGenerate(p) ==
    /\ pc[p] = "wh_generate"
    /\ \E answered \in BOOLEAN :
          IF answered
          THEN /\ Goes(p, "wh_save_user")
               /\ twiml_response' = twiml_response
          ELSE Replies(p, ERROR_MESSAGE)
    /\ Interleaves(p, phone_number[p])
    /\ UNCHANGED <<user_sessions, next_id, now, phone_number, session,
                   conversation_history, next_message_id,
                   Body, session_character, selected_character, appended,
                   deliveries>>
    /\ UNCHANGED handlerFrame

\* add_message(phone_number, selected_character, "user", Body)
WhSaveUser(p) ==
    /\ pc[p] = "wh_save_user"
    /\ Saves(p, selected_character[p], "user", Body[p])
    /\ Goes(p, "wh_save_assistant")
    /\ Interleaves(p, phone_number[p])
    /\ UNCHANGED <<user_sessions, next_id, phone_number, session,
                   Body, session_character, selected_character,
                   twiml_response, deliveries>>
    /\ UNCHANGED handlerFrame

\* add_message(phone_number, selected_character, "assistant",
\* response_text); step 10: the answer under the persona's name is the
\* reply.
WhSaveAssistant(p) ==
    /\ pc[p] = "wh_save_assistant"
    /\ Saves(p, selected_character[p], "assistant", response_text)
    /\ Replies(p, formatted_response(selected_character[p], response_text))
    /\ Interleaves(p, phone_number[p])
    /\ UNCHANGED <<user_sessions, next_id, phone_number, session,
                   Body, session_character, selected_character, deliveries>>
    /\ UNCHANGED handlerFrame

\* The webhook on a database in use: MaxDeliveries messages to come.
InitWebhook ==
    /\ \E db \in Databases :
          /\ user_sessions = db[1]
          /\ conversation_history = db[2]
    /\ next_id = Cardinality(user_sessions) + 1
    /\ next_message_id = Cardinality(conversation_history) + 1
    /\ now = 2
    /\ pc = [p \in Procs |-> "idle"]
    /\ phone_number = [p \in Procs |-> ""]
    /\ character = [p \in Procs |-> "none"]
    /\ session = [p \in Procs |-> NoRow]
    /\ path = [p \in Procs |-> "none"]
    /\ result = [p \in Procs |-> NoRow]
    /\ role = [p \in Procs |-> "none"]
    /\ content = [p \in Procs |-> ""]
    /\ limit = [p \in Procs |-> 0]
    /\ days = [p \in Procs |-> 0]
    /\ messages = [p \in Procs |-> <<>>]
    /\ returned = [p \in Procs |-> <<>>]
    /\ deleted = [p \in Procs |-> 0]
    /\ calls = MaxCalls
    /\ turns = MaxTurns
    /\ RouterIdle
    /\ HashIdle
    /\ CipherIdle
    /\ RecordIdle
    /\ Body = [p \in Procs |-> ""]
    /\ session_character = [p \in Procs |-> "none"]
    /\ selected_character = [p \in Procs |-> "none"]
    /\ twiml_response = [p \in Procs |-> <<>>]
    /\ appended = [p \in Procs |-> <<>>]
    /\ disturbed = [p \in Procs |-> FALSE]
    /\ deliveries = 0
    /\ SimpleIdle

NextWebhook ==
    \E p \in Procs :
        \/ WhReceive(p)
        \/ WhGocQueryHash(p)
        \/ WhGocQueryLegacy(p)
        \/ WhGocMigrateCommit(p)
        \/ WhGocInsertCommit(p)
        \/ WhFirstQueryHash(p)
        \/ WhFirstQueryLegacy(p)
        \/ WhWelcomeAssistant(p)
        \/ WhWelcomeUser(p)
        \/ WhUcQuery(p)
        \/ WhUcCommit(p)
        \/ WhGenerate(p)
        \/ WhSaveUser(p)
        \/ WhSaveAssistant(p)

SpecWebhook == InitWebhook /\ [][NextWebhook]_vars

(* ------------------------- claims: the webhook ------------------------ *)
\* The session row of the identifier handler p serves.
SessionOf(rows, p) ==
    {r \in rows : r.phone_hash = hash_phone_number(phone_number[p])}

\* Handler p takes this step.
Steps(p) == pc'[p] # pc[p]

\* Handler p has routed its message.
Routed(p) == selected_character[p] # "none"

C27_UpdatedIffSwitched ==
    [][\A p \in Procs :
          Steps(p) =>
             /\ (~Routed(p) /\ Routed(p)') =>
                   /\ pc'[p] = "wh_uc" <=>
                         selected_character'[p] # session_character[p]
                   /\ pc'[p] # "wh_uc" => pc'[p] = "wh_generate"
             /\ (Routed(p) /\ pc[p] # "wh_uc_commit") =>
                   user_sessions' = user_sessions
             /\ (Routed(p) /\ pc'[p] = "wh_done" /\ ~disturbed'[p]) =>
                   /\ SessionOf(user_sessions', p) # {}
                   /\ \A r \in SessionOf(user_sessions', p) :
                         r.current_character = selected_character[p]
      ]_vars

\* A handler has switched the persona and replied, a message of another
\* identifier being handled meanwhile and none of its own identifier.
C27_Witness ==
    \E p, q \in Procs :
        /\ pc[p] = "wh_done"
        /\ Routed(p)
        /\ selected_character[p] # session_character[p]
        /\ ~disturbed[p]
        /\ Running(q)
        /\ appended[q] # <<>>
        /\ \A r \in SessionOf(user_sessions, p) :
              r.current_character = selected_character[p]

\* The turns handler p has inserted, in the order of insertion.
InsertedBy(p) ==
    [i \in 1..Len(appended[p]) |-> Row(conversation_history, appended[p][i])]

\* C28: a handler that has routed its message inserts no turn before the
\* answer is generated; when both models fail, its reply is the error
\* text and conversation_history is as the message found it; when an
\* answer is generated, the user turn is inserted, then the assistant
\* turn, both under the selected persona.
C28_TurnsAfterAnswer ==
    [][\A p \in Procs :
          Steps(p) =>
             /\ pc[p] \in {"wh_uc", "wh_uc_commit", "wh_generate"} =>
                   /\ appended[p] = <<>>
                   /\ conversation_history' = conversation_history
             /\ (pc[p] = "wh_generate" /\ pc'[p] = "wh_done") =>
                   /\ twiml_response'[p] = <<ERROR_MESSAGE>>
                   /\ appended'[p] = <<>>
             /\ (pc[p] = "wh_save_user") =>
                   /\ Len(appended'[p]) = 1
                   /\ conversation_history' \ conversation_history =
                         {Row(conversation_history', appended'[p][1])}
                   /\ LET u == Row(conversation_history', appended'[p][1]) IN
                         /\ u.role = "user"
                         /\ decrypt(u.content) = Body[p]
                         /\ u.character = selected_character[p]
             /\ (pc[p] = "wh_save_assistant") =>
                   /\ Len(appended'[p]) = 2
                   /\ conversation_history' \ conversation_history =
                         {Row(conversation_history', appended'[p][2])}
                   /\ LET u == Row(conversation_history', appended'[p][1])
                          a == Row(conversation_history', appended'[p][2])
                      IN  /\ a.role = "assistant"
                          /\ decrypt(a.content) = response_text
                          /\ a.character = selected_character[p]
                          /\ u.role = "user"
                          /\ u.id < a.id
                          /\ u.timestamp < a.timestamp
                   /\ twiml_response'[p] =
                         <<formatted_response(selected_character[p], response_text)>>
      ]_vars

\* One handler has stored the user turn and the assistant turn of its
\* message; for another both models failed.
C28_Witness ==
    \E p, q \in Procs :
        /\ pc[p] = "wh_done"
        /\ Routed(p)
        /\ Len(appended[p]) = 2
        /\ InsertedBy(p)[1].role = "user"
        /\ InsertedBy(p)[2].role = "assistant"
        /\ pc[q] = "wh_done"
        /\ Routed(q)
        /\ twiml_response[q] = <<ERROR_MESSAGE>>
        /\ appended[q] = <<>>

\* The rows that record a welcome sent to the identifier with hash h.
Welcomes(rows, h) ==
    {r \in rows : /\ r.phone_hash = h
                  /\ r.role = "assistant"
                  /\ decrypt(r.content) = welcome_message}

\* C30: for an identifier the welcome text is sent, and its assistant
\* turn recorded, at most once (no row is erased or pruned here), also
\* when two deliveries of the first message are handled side by side.
C30_WelcomeAtMostOnce ==
    \A h \in {r.phone_hash : r \in conversation_history} :
        Cardinality(Welcomes(conversation_history, h)) <= 1

(* ============ SimpleSession (whatsapp_webhook/server.py) ============== *)
(* The in-memory store, and SessionManager called the same way: each call  *)
(* runs from its first statement to its return on both before the next     *)
(* call is made.                                                           *)

\* self.sessions = {}
NoSessions == [x \in {} |-> x]

\* type('Session', (), {'current_character': 'botan', 'history': []})()
SimpleNew == [current_character |-> "botan", history |-> <<>>]

\* self.sessions[phone_number] = value
Assign(dict, key, value) ==
    [x \in DOMAIN dict \cup {key} |-> IF x = key THEN value ELSE dict[x]]

\* SimpleSession.get_or_create_session: the dictionary after the call.
simple_get_or_create_session(dict, phone) ==
    IF phone \notin DOMAIN dict THEN Assign(dict, phone, SimpleNew) ELSE dict

\* SimpleSession.update_character: the dictionary after the call.
simple_update_character(dict, phone, char) ==
    IF phone \in DOMAIN dict
    THEN Assign(dict, phone, [dict[phone] EXCEPT !.current_character = char])
    ELSE dict

\* list[-n:]
LastN(list, n) ==
    IF n = 0 \/ n >= Len(list) THEN list
    ELSE SubSeq(list, Len(list) - n + 1, Len(list))

\* SimpleSession.get_conversation_history: `character` is not used.
simple_get_conversation_history(dict, phone, n, char) ==
    IF phone \in DOMAIN dict THEN LastN(dict[phone].history, n) ELSE <<>>

\* SimpleSession.add_message: the dictionary after the call; `character`
\* is not stored.
simple_add_message(dict, phone, char, r, c) ==
    IF phone \in DOMAIN dict
    THEN Assign(dict, phone,
                [dict[phone] EXCEPT !.history =
                     Append(@, [role |-> r, content |-> c])])
    ELSE dict

\* What a call returns: a session's persona, a list of turns, or None.
Persona(c) == [kind |-> "persona", val |-> c]
TurnList(list) == [kind |-> "turns", val |-> list]

\* The identifiers of the calls.
StoreIdentifiers == {"+1555", "+1666"}

\* The personas asked of update_character.
StoreCharacters == {"kasho", "yuri"}

\* The add_message calls: identifier, persona, role, content.
StoreMessages ==
    {<<"+1555", "botan", "user", "hi">>,
     <<"+1555", "kasho", "assistant", "ok">>,
     <<"+1666", "botan", "user", "yo">>}

\* The get_conversation_history calls: identifier and persona filter.
StoreReads ==
    {<<"+1555", NoCharacter>>, <<"+1555", "botan">>, <<"+1666", NoCharacter>>}

\* get_or_create_session on both stores. SessionManager: the row by hash,
\* else the legacy row, migrated, else a new row.
BothGetOrCreateSession ==
    \E phone \in StoreIdentifiers :
        /\ ops < MaxOps
        /\ ops' = ops + 1
        /\ sessions' = simple_get_or_create_session(sessions, phone)
        /\ simple_returned' = Persona(sessions'[phone].current_character)
        /\ LET byhash == ByHash(user_sessions, hash_phone_number(phone))
               legacy == ByLegacyPhone(user_sessions, phone)
           IN  IF byhash # {}
               THEN /\ \E id \in byhash :
                          manager_returned' =
                              Persona(Row(user_sessions, id).current_character)
                    /\ UNCHANGED <<user_sessions, next_id, now>>
               ELSE IF legacy # {}
               THEN \E id \in legacy, iv \in SessionIVs :
                        LET old == Row(user_sessions, id)
                            new == MigratedRow(old, phone, iv, now + 1)
                        IN  /\ user_sessions' = (user_sessions \ {old}) \cup {new}
                            /\ now' = now + 1
                            /\ next_id' = next_id
                            /\ manager_returned' = Persona(new.current_character)
               ELSE \E iv \in SessionIVs :
                        LET new == NewSession(next_id, phone, iv, now + 1) IN
                        /\ user_sessions' = user_sessions \cup {new}
                        /\ now' = now + 1
                        /\ next_id' = next_id + 1
                        /\ manager_returned' = Persona(new.current_character)
        /\ UNCHANGED <<pc, phone_number, character, session, path, result, calls>>
        /\ UNCHANGED <<routerVars, historyTableVars, historyCallVars, hashVars>>
        /\ UNCHANGED <<cipherVars, recordVars, webhookVars>>

\* update_character on both stores. SessionManager: the row by hash, else
\* by phone_number; the assignment and its commit when there is one.
BothUpdateCharacter ==
    \E phone \in StoreIdentifiers, char \in StoreCharacters :
        /\ ops < MaxOps
        /\ ops' = ops + 1
        /\ sessions' = simple_update_character(sessions, phone, char)
        /\ simple_returned' = NoAnswer
        /\ manager_returned' = NoAnswer
        /\ LET byhash == ByHash(user_sessions, hash_phone_number(phone))
               found == IF byhash # {} THEN byhash
                        ELSE ByPhone(user_sessions, phone)
           IN  IF found # {}
               THEN \E id \in found :
                        LET old == Row(user_sessions, id)
                            new == UpdatedSession(old, char, now + 1)
                        IN  /\ user_sessions' = (user_sessions \ {old}) \cup {new}
                            /\ now' = now + 1
               ELSE UNCHANGED <<user_sessions, now>>
        /\ UNCHANGED <<next_id, pc, phone_number, character, session, path,
                       result, calls>>
        /\ UNCHANGED <<routerVars, historyTableVars, historyCallVars, hashVars>>
        /\ UNCHANGED <<cipherVars, recordVars, webhookVars>>

\* add_message on both stores. SessionManager: one INSERT, whether the
\* identifier has a session or not.
BothAddMessage ==
    \E call \in StoreMessages, iv \in HandlerIVs :
        /\ ops < MaxOps
        /\ ops' = ops + 1
        /\ sessions' = simple_add_message(sessions, call[1], call[2], call[3],
                                          call[4])
        /\ simple_returned' = NoAnswer
        /\ manager_returned' = NoAnswer
        /\ conversation_history' = conversation_history \cup
               {NewMessage(next_message_id, call[1], call[2], call[3], call[4],
                           iv, now + 1)}
        /\ next_message_id' = next_message_id + 1
        /\ now' = now + 1
        /\ UNCHANGED <<user_sessions, next_id, pc, phone_number, character,
                       session, path, result, calls>>
        /\ UNCHANGED <<turns, routerVars, historyCallVars, hashVars>>
        /\ UNCHANGED <<cipherVars, recordVars, webhookVars>>

\* get_conversation_history on both stores. SessionManager: the rows by
\* hash, newest first, limited, else the legacy rows; reversed, decrypted.
BothGetConversationHistory ==
    \E call \in StoreReads, n \in 0..MaxLimit :
        /\ ops < MaxOps
        /\ ops' = ops + 1
        /\ sessions' = sessions
        /\ simple_returned' =
               TurnList(simple_get_conversation_history(sessions, call[1], n,
                                                        call[2]))
        /\ \E hashed \in OrderByTimestampDesc(
                  HistoryByHash(conversation_history,
                                hash_phone_number(call[1]), call[2]), n) :
              IF hashed # <<>>
              THEN manager_returned' = TurnList(Decrypted(Reverse(hashed)))
              ELSE \E legacy \in OrderByTimestampDesc(
                         HistoryByLegacyPhone(conversation_history, call[1],
                                              call[2]), n) :
                       manager_returned' = TurnList(Decrypted(Reverse(legacy)))
        /\ UNCHANGED <<storeVars, routerVars, historyTableVars, historyCallVars,
                       hashVars>>
        /\ UNCHANGED <<cipherVars, recordVars, webhookVars>>

\* Both stores empty: a new dictionary, a new database.
InitSimple ==
    /\ StoreIdle
    /\ HistoryIdle
    /\ RouterIdle
    /\ HashIdle
    /\ CipherIdle
    /\ RecordIdle
    /\ WebhookIdle
    /\ sessions = NoSessions
    /\ simple_returned = NoAnswer
    /\ manager_returned = NoAnswer
    /\ ops = 0

NextSimple ==
    \/ BothGetOrCreateSession
    \/ BothUpdateCharacter
    \/ BothAddMessage
    \/ BothGetConversationHistory

SpecSimple == InitSimple /\ [][NextSimple]_vars

(* ------------------- claims: the two stores --------------------------- *)
\* C29: for the same sequence of get_or_create_session, update_character,
\* add_message and get_conversation_history calls on data without legacy
\* rows, SimpleSession and SessionManager return the same: the same
\* current persona, the same ordered list of turns.
C29_SameAnswers == simple_returned = manager_returned
====
